---- MODULE Spec2Model ----
(***************************************************************************)
(* A model of the TLSF allocator core of rlsf (src/src/tlsf.rs).           *)
(*                                                                         *)
(* The allocator keeps its block headers in band, inside the pool memory,  *)
(* so the model keeps a word-addressed memory `mem` and translates every   *)
(* header read and write of the source into a read or write of that        *)
(* memory.  The machine is the 16-bit target of the source                 *)
(* (target_pointer_width = "16"): a word is 2 bytes and GRANULARITY is 8.  *)
(*                                                                         *)
(* Build configuration: `debug_assertions` is chosen once, in Init.  With  *)
(* it, a failed debug_assert! or an overflowing +,- panics; without it the *)
(* assertion is compiled out and the arithmetic wraps.  unreachable_       *)
(* unchecked and accesses outside the modelled memory are undefined        *)
(* behaviour: the model stops in err = "ub" and says nothing of what       *)
(* follows.                                                                *)
(***************************************************************************)
EXTENDS Integers, Sequences, FiniteSets, TLC

VARIABLES
    mem,              \* pool memory: even byte address -> 16-bit word
    fl_bitmap,        \* Tlsf::fl_bitmap, as the set of its set bits
    sl_bitmap,        \* Tlsf::sl_bitmap, row -> set of set bits
    first_free,       \* Tlsf::first_free, [fl][sl] -> block address or None
    err,              \* "none", "panic" or "ub"
    debug_assertions, \* the build: cfg(debug_assertions) and overflow checks
    inserted,         \* the regions the caller has passed to insert_free_block_ptr
    allocs,           \* the caller's live allocations: [ptr, size, align]
    mapped,           \* the last call of a MapParams: [self, op, size, ret]
    global,           \* a GlobalTlsf: [mutex, enable_reallocation, pc]
    last,             \* the last call and what it returned
    calls,            \* the number of calls made so far
    growable_pool,    \* FlexTlsf::growable_pool
    source            \* FlexTlsf::source: its allocations and the calls it got

vars == <<mem, fl_bitmap, sl_bitmap, first_free, err, debug_assertions,
          inserted, allocs, last, calls, growable_pool, source, mapped,
          global>>

----------------------------------------------------------------------------
(* Machine parameters *)

USIZE_BITS == 16
USIZE_LEN == USIZE_BITS \div 8
USIZE_MOD == 2 ^ USIZE_BITS
USIZE_MAX == USIZE_MOD - 1

GRANULARITY == USIZE_LEN * 4
GRANULARITY_LOG2 == CHOOSE k \in 0..USIZE_BITS : 2 ^ k = GRANULARITY

FLLEN == 3
SLLEN == 4
FLBitmap_BITS == 8
SLBitmap_BITS == 8
SLI == CHOOSE k \in 0..USIZE_BITS : 2 ^ k = SLLEN

None == 0
NoList == <<>>

SIZE_USED == 1
SIZE_LAST_IN_POOL == 2

\* size_of::<UsedBlockHdr>() : the two words of BlockHdr
UsedBlockHdr_SIZE == GRANULARITY \div 2

\* Byte offsets of the header fields
OFF_SIZE == 0
OFF_PREV_PHYS == USIZE_LEN
OFF_NEXT_FREE == 2 * USIZE_LEN
OFF_PREV_FREE == 3 * USIZE_LEN

----------------------------------------------------------------------------
(* Bounds of the model *)

\* granules of the first region the caller may insert
MainGranules == 4
\* live allocations the caller holds at a time
MaxAllocs == 3
\* calls the caller makes
MaxCalls == 6
\* calls the caller that never reallocates makes
MaxCallsNoRealloc == 7
\* calls the caller that inserts one pool makes
MaxCallsPool == 3

MemBase == 2 * GRANULARITY
MemBytes == (MainGranules + 2) * GRANULARITY
\* The memory also has room for a region of more than MAX_POOL_SIZE bytes
LargeBytes == (2 ^ FLLEN + 1) * GRANULARITY
Addr ==
    {a \in MemBase ..
               (MemBase + (IF MemBytes > LargeBytes THEN MemBytes ELSE LargeBytes) - 1) :
        a % USIZE_LEN = 0}

\* The regions offered to insert_free_block_ptr: an aligned one, and one whose
\* start and length are not multiples of GRANULARITY
Regions ==
    { [start |-> MemBase, len |-> MainGranules * GRANULARITY],
      [start |-> MemBase + MainGranules * GRANULARITY + USIZE_LEN,
       len |-> 2 * GRANULARITY - USIZE_LEN] }

Aligns == {GRANULARITY \div 2, GRANULARITY, 2 * GRANULARITY}
\* Sizes: within a granule, across granules, and one whose rounding overflows
\* the word
Sizes == {4, 12, USIZE_MAX - 3}

\* What the memory holds at first and what the caller stores into a fresh
\* allocation: zeroes (fill 0), or a pattern of in-pool addresses that differs
\* from word to word
Fills == {1}
DataWord(fill, k) ==
    IF fill = 0 THEN 0 ELSE MemBase + (((3 * k + 1) * USIZE_LEN) % MemBytes)

----------------------------------------------------------------------------
(* Word arithmetic *)

Wrap(x) == x % USIZE_MOD
Overflows(x) == x < 0 \/ x > USIZE_MAX

\* x & !(a - 1) for a power of two a
AlignDown(x, a) == x - (x % a)
\* x & (a - 1)
LowBits(x, a) == x % a
\* size & SIZE_SIZE_MASK
SIZE_SIZE_MASK(x) == AlignDown(x, GRANULARITY)
HasFlag(x, f) == (x \div f) % 2 = 1
SetFlag(x, f) == IF HasFlag(x, f) THEN x ELSE x + f
ClearFlag(x, f) == IF HasFlag(x, f) THEN x - f ELSE x

RECURSIVE BitLen(_)
BitLen(x) == IF x = 0 THEN 0 ELSE 1 + BitLen(x \div 2)
leading_zeros(x) == USIZE_BITS - BitLen(x)

\* BinInteger::bit_scan_forward: the first set bit at or after `start`, or
\* BITS when there is none
bit_scan_forward(bitmap, start, bits) ==
    LET c == {i \in bitmap : i >= start}
    IN IF c = {} THEN bits ELSE CHOOSE x \in c : \A y \in c : x <= y

\* BinInteger::trailing_zeros
trailing_zeros(bitmap, bits) == bit_scan_forward(bitmap, 0, bits)

----------------------------------------------------------------------------
(* Size classes *)

MAX_POOL_SIZE ==
    LET shift == GRANULARITY_LOG2 + FLLEN
    IN IF shift < USIZE_BITS THEN 2 ^ shift - GRANULARITY
       ELSE IF shift = USIZE_BITS THEN Wrap(0 - GRANULARITY)
       ELSE None

\* The debug_assert!s at the head of map_floor and map_ceil
map_asserts_fail(size) == size < GRANULARITY \/ size % GRANULARITY # 0

\* Tlsf::map_floor.  For size < GRANULARITY the u32 subtraction wraps and fl
\* is out of range, so the result is None.
map_floor(size) ==
    LET fl == USIZE_BITS - GRANULARITY_LOG2 - 1 - leading_zeros(size)
        sl == IF GRANULARITY_LOG2 < SLI /\ fl < SLI - GRANULARITY_LOG2
              THEN Wrap(size * 2 ^ ((SLI - GRANULARITY_LOG2) - fl))
              ELSE size \div 2 ^ (fl + GRANULARITY_LOG2 - SLI)
    IN IF fl < 0 \/ fl >= FLLEN THEN NoList
       ELSE <<fl, LowBits(sl, SLLEN)>>

\* Tlsf::map_ceil
map_ceil(size) ==
    LET fl0 == USIZE_BITS - GRANULARITY_LOG2 - 1 - leading_zeros(size)
        small == GRANULARITY_LOG2 < SLI /\ fl0 < SLI - GRANULARITY_LOG2
        shift == fl0 + GRANULARITY_LOG2 - SLI
        sl0 == size \div 2 ^ shift
        sl1 == sl0 + (IF Wrap(sl0 * 2 ^ shift) # size THEN 1 ELSE 0)
        sl == IF small THEN Wrap(size * 2 ^ ((SLI - GRANULARITY_LOG2) - fl0))
              ELSE sl1
        fl == IF small THEN fl0 ELSE fl0 + (sl1 \div 2 ^ (SLI + 1))
    IN IF fl0 < 0 \/ fl >= FLLEN THEN NoList
       ELSE <<fl, LowBits(sl, SLLEN)>>

----------------------------------------------------------------------------
(* The free block list mapper: MapParams, self = [sli, fllen] *)

\* map_floor without the test of fl's range
MapParams_map_floor_unchecked(self, size) ==
    LET fl == USIZE_BITS - GRANULARITY_LOG2 - 1 - leading_zeros(size)
        sl == IF GRANULARITY_LOG2 < self.sli /\ fl < self.sli - GRANULARITY_LOG2
              THEN Wrap(size * 2 ^ ((self.sli - GRANULARITY_LOG2) - fl))
              ELSE size \div 2 ^ (fl + GRANULARITY_LOG2 - self.sli)
    IN <<fl, LowBits(sl, 2 ^ self.sli)>>

\* MapParams::map_floor
MapParams_map_floor(self, size) ==
    LET fl == USIZE_BITS - GRANULARITY_LOG2 - 1 - leading_zeros(size)
        sl == IF GRANULARITY_LOG2 < self.sli /\ fl < self.sli - GRANULARITY_LOG2
              THEN Wrap(size * 2 ^ ((self.sli - GRANULARITY_LOG2) - fl))
              ELSE size \div 2 ^ (fl + GRANULARITY_LOG2 - self.sli)
    IN IF fl < 0 \/ fl >= self.fllen THEN NoList
       ELSE <<fl, LowBits(sl, 2 ^ self.sli)>>

\* map_ceil that rounds sl up and leaves fl as it is when sl passes SLLEN
MapParams_map_ceil_uncarried(self, size) ==
    LET fl == USIZE_BITS - GRANULARITY_LOG2 - 1 - leading_zeros(size)
        small == GRANULARITY_LOG2 < self.sli /\ fl < self.sli - GRANULARITY_LOG2
        shift == fl + GRANULARITY_LOG2 - self.sli
        sl0 == size \div 2 ^ shift
        sl == IF small THEN Wrap(size * 2 ^ ((self.sli - GRANULARITY_LOG2) - fl))
              ELSE sl0 + (IF Wrap(sl0 * 2 ^ shift) # size THEN 1 ELSE 0)
    IN IF fl < 0 \/ fl >= self.fllen THEN NoList
       ELSE <<fl, LowBits(sl, 2 ^ self.sli)>>

\* MapParams::map_ceil
MapParams_map_ceil(self, size) ==
    LET fl0 == USIZE_BITS - GRANULARITY_LOG2 - 1 - leading_zeros(size)
        small == GRANULARITY_LOG2 < self.sli /\ fl0 < self.sli - GRANULARITY_LOG2
        shift == fl0 + GRANULARITY_LOG2 - self.sli
        sl0 == size \div 2 ^ shift
        sl1 == sl0 + (IF Wrap(sl0 * 2 ^ shift) # size THEN 1 ELSE 0)
        sl == IF small THEN Wrap(size * 2 ^ ((self.sli - GRANULARITY_LOG2) - fl0))
              ELSE sl1
        fl == IF small THEN fl0 ELSE fl0 + (sl1 \div 2 ^ (self.sli + 1))
    IN IF fl0 < 0 \/ fl >= self.fllen THEN NoList
       ELSE <<fl, LowBits(sl, 2 ^ self.sli)>>

\* map_ceil_and_unmap that gives the size back where it should round it up
MapParams_unmap_unrounded(self, size) ==
    LET max1 == USIZE_MAX - (USIZE_MAX \div 2 ^ (self.sli + 1))
        top == USIZE_BITS - GRANULARITY_LOG2 - 1
        max_input == IF self.fllen - 1 < top
                     THEN max1 \div 2 ^ (top - (self.fllen - 1)) ELSE max1
    IN IF size > max_input THEN None ELSE size

\* map_ceil_and_unmap without the test of its greatest input
MapParams_unmap_unchecked(self, size) ==
    LET fl == USIZE_BITS - GRANULARITY_LOG2 - 1 - leading_zeros(size)
        shift == fl + GRANULARITY_LOG2 - self.sli
    IN IF GRANULARITY_LOG2 < self.sli /\ fl < self.sli - GRANULARITY_LOG2
       THEN size
       ELSE AlignDown(Wrap(size + (2 ^ shift - 1)), 2 ^ shift)

\* MapParams::map_ceil_and_unmap: the least size of the blocks of the list
\* map_ceil(size) names, or None.  The sum that rounds up wraps as the
\* machine's addition does.
MapParams_map_ceil_and_unmap(self, size) ==
    LET max1 == USIZE_MAX - (USIZE_MAX \div 2 ^ (self.sli + 1))
        top == USIZE_BITS - GRANULARITY_LOG2 - 1
        max_input == IF self.fllen - 1 < top
                     THEN max1 \div 2 ^ (top - (self.fllen - 1)) ELSE max1
        fl == top - leading_zeros(size)
        shift == fl + GRANULARITY_LOG2 - self.sli
    IN IF size > max_input THEN None
       ELSE IF GRANULARITY_LOG2 < self.sli /\ fl < self.sli - GRANULARITY_LOG2
       THEN size
       ELSE AlignDown(Wrap(size + (2 ^ shift - 1)), 2 ^ shift)

----------------------------------------------------------------------------
(* The allocator state as one value, and its memory primitives *)

State == [mem |-> mem, fl_bitmap |-> fl_bitmap, sl_bitmap |-> sl_bitmap,
          first_free |-> first_free, err |-> err]

Ok(s) == s.err = "none"
Fail(s, e) == IF Ok(s) THEN [s EXCEPT !.err = e] ELSE s

\* A debug_assert!(cond), or an overflow check on +,-
DebugAssert(s, cond) ==
    IF debug_assertions /\ ~cond THEN Fail(s, "panic") ELSE s

\* A read of the word at address a; reading outside the memory is flagged by
\* Touch
Rd(s, a) == IF a \in Addr THEN s.mem[a] ELSE 0
Touch(s, a) == IF a \in Addr THEN s ELSE Fail(s, "ub")
Wr(s, a, v) ==
    IF ~Ok(s) THEN s
    ELSE IF a \in Addr THEN [s EXCEPT !.mem[a] = v]
    ELSE Fail(s, "ub")

\* BlockHdr::next_phys_block
next_phys_block(s, block) ==
    LET size == Rd(s, block + OFF_SIZE)
    IN IF HasFlag(size, SIZE_LAST_IN_POOL) THEN None
       ELSE Wrap(block + SIZE_SIZE_MASK(size))

set_bits(s, fl, sl) ==
    IF ~Ok(s) THEN s
    ELSE [s EXCEPT !.fl_bitmap = @ \cup {fl}, !.sl_bitmap[fl] = @ \cup {sl}]

\* "The free list is now empty - update the bitmap"
clear_bits(s, fl, sl) ==
    IF ~Ok(s) THEN s
    ELSE [s EXCEPT !.sl_bitmap[fl] = @ \ {sl},
                   !.fl_bitmap = IF s.sl_bitmap[fl] \ {sl} = {} THEN @ \ {fl} ELSE @]

\* *first_free = head
set_first_free(s, fl, sl, head) ==
    IF ~Ok(s) THEN s ELSE [s EXCEPT !.first_free[fl][sl] = head]

\* if let Some(x) = of { x.prev_phys_block = Some(block) }
set_prev_phys_block(s, of, block) ==
    IF of = None THEN s ELSE Wr(s, of + OFF_PREV_PHYS, block)

\* Lines 302-308 of link_free_block, for the list (fl, sl) of the size
link_at(s, block, fl, sl) ==
    LET s1 == set_first_free(s, fl, sl, block)
        s2 == Wr(s1, block + OFF_NEXT_FREE, s.first_free[fl][sl])
        s3 == Wr(s2, block + OFF_PREV_FREE, None)
    IN set_bits(s3, fl, sl)

\* Tlsf::link_free_block
link_free_block(s, block, size) ==
    IF ~Ok(s) THEN s
    ELSE IF debug_assertions /\ map_asserts_fail(size) THEN Fail(s, "panic")
    ELSE IF map_floor(size) = NoList THEN Fail(s, "ub")
    ELSE link_at(s, block, map_floor(size)[1], map_floor(size)[2])

\* Lines 330-341 of unlink_free_block: the block is the head of (fl, sl)
unlink_head(s, block, next_free, fl, sl) ==
    IF debug_assertions /\ s.first_free[fl][sl] # block THEN Fail(s, "panic")
    ELSE IF next_free = None
    THEN clear_bits(set_first_free(s, fl, sl, next_free), fl, sl)
    ELSE set_first_free(s, fl, sl, next_free)

\* Lines 326-342 of unlink_free_block
unlink_from(s, block, size, next_free, prev_free) ==
    IF ~Ok(s) THEN s
    ELSE IF prev_free # None THEN Wr(s, prev_free + OFF_NEXT_FREE, next_free)
    ELSE IF debug_assertions /\ map_asserts_fail(size) THEN Fail(s, "panic")
    ELSE IF map_floor(size) = NoList THEN Fail(s, "ub")
    ELSE unlink_head(s, block, next_free, map_floor(size)[1], map_floor(size)[2])

\* Tlsf::unlink_free_block
unlink_free_block(s, block, size) ==
    LET next_free == Rd(s, block + OFF_NEXT_FREE)
        prev_free == Rd(s, block + OFF_PREV_FREE)
        s0 == Touch(Touch(s, block + OFF_NEXT_FREE), block + OFF_PREV_FREE)
    IN unlink_from(IF next_free # None
                   THEN Wr(s0, next_free + OFF_PREV_FREE, prev_free)
                   ELSE s0,
                   block, size, next_free, prev_free)

----------------------------------------------------------------------------
(* Pool insertion *)

\* The `while size > 0` loop of insert_free_block_ptr.  `start` is the same
\* in every round: the source does not advance it.
RECURSIVE insert_chunks(_, _, _)
insert_chunks(s, start, size) ==
    IF size <= 0 \/ ~Ok(s) THEN s
    ELSE LET chunk_size ==
                 IF GRANULARITY_LOG2 + FLLEN <= USIZE_BITS /\ MAX_POOL_SIZE < size
                 THEN MAX_POOL_SIZE ELSE size
             s0 == DebugAssert(s, chunk_size % GRANULARITY = 0)
             s1 == Wr(s0, start + OFF_SIZE, SetFlag(chunk_size, SIZE_LAST_IN_POOL))
             s2 == Wr(s1, start + OFF_PREV_PHYS, None)
             s3 == link_free_block(s2, start, chunk_size)
         IN insert_chunks(s3, start, size - chunk_size)

\* The rounded start of the region passed to insert_free_block_ptr
insert_start(unaligned_start) ==
    AlignDown(Wrap(unaligned_start + (GRANULARITY - 1)), GRANULARITY)

\* insert_size that forgets the bytes the rounding of the start skips
insert_size_unadjusted(unaligned_start, len) ==
    IF len < GRANULARITY THEN 0 ELSE AlignDown(len, GRANULARITY)

\* The rounded length, or 0 when "the block is too small"
insert_size(unaligned_start, len) ==
    LET x == len - Wrap(insert_start(unaligned_start) - unaligned_start)
    IN IF x < 0 \/ x < GRANULARITY THEN 0 ELSE AlignDown(x, GRANULARITY)

\* Tlsf::insert_free_block_ptr
insert_free_block_ptr(s, unaligned_start, len) ==
    insert_chunks(s, insert_start(unaligned_start),
                  insert_size(unaligned_start, len))

----------------------------------------------------------------------------
(* Allocation *)

\* core::ptr::copy (memmove) of n bytes
Copy(s, src, dst, n) ==
    LET offs == {o \in 0 .. (n - 1) : o % USIZE_LEN = 0}
    IN IF ~Ok(s) \/ n <= 0 THEN s
       ELSE IF \E o \in offs : (src + o) \notin Addr \/ (dst + o) \notin Addr
       THEN Fail(s, "ub")
       ELSE [s EXCEPT !.mem =
                [a \in Addr |-> IF a >= dst /\ a < dst + n
                                THEN s.mem[src + (a - dst)] ELSE s.mem[a]]]

NoInit == [kind |-> "none"]

\* The copy of the rest of the old payload (lines 800-806); a negative count
\* is a huge usize
copy_rest(s, init, new_alloc, count) ==
    IF Ok(s) /\ count < 0 THEN Fail(s, "ub")
    ELSE Copy(s, init.ptr + 2 * USIZE_LEN, new_alloc + 2 * USIZE_LEN, count)

\* The `initer` closure: nothing for allocate, the copy of the old contents
\* for reallocate (the closure of lines 796-815)
initer(s, init, new_alloc) ==
    IF init.kind = "none" \/ ~Ok(s) THEN s
    ELSE LET count == SIZE_SIZE_MASK(Rd(s, init.block + OFF_SIZE))
                          - UsedBlockHdr_SIZE - 2 * USIZE_LEN
             s1 == DebugAssert(Touch(s, init.block + OFF_SIZE), count >= 0)
             s2 == copy_rest(s1, init, new_alloc, count)
             s3 == Wr(s2, new_alloc, init.head[1])
         IN Wr(s3, new_alloc + USIZE_LEN, init.head[2])

\* A search that takes the list map_ceil names without consulting the bitmaps
search_without_bitmaps(s, min_size) == map_ceil(min_size)

\* Tlsf::search_suitable_free_block_list_for_allocation: <<fl, sl>>, NoList,
\* or <<-1>> where the source reaches unreachable_unchecked
search_suitable_free_block_list_for_allocation(s, min_size) ==
    LET idx == map_ceil(min_size)
    IN IF idx = NoList THEN NoList
       ELSE LET fl == idx[1]
                sl == bit_scan_forward(s.sl_bitmap[fl], idx[2], SLBitmap_BITS)
                fl2 == bit_scan_forward(s.fl_bitmap, fl + 1, FLBitmap_BITS)
            IN IF sl < SLLEN THEN <<fl, sl>>
               ELSE IF fl2 < FLLEN
               THEN LET sl2 == trailing_zeros(s.sl_bitmap[fl2], SLBitmap_BITS)
                    IN IF sl2 >= SLLEN THEN <<-1>> ELSE <<fl2, sl2>>
               ELSE NoList

\* A payload that starts right after the used block header, whatever the
\* alignment asked for
payload_ptr_unaligned(block, align) == Wrap(block + UsedBlockHdr_SIZE)

\* "Decide the starting address of the payload" (lines 524-528)
payload_ptr(block, align) ==
    AlignDown(Wrap(Wrap(block + UsedBlockHdr_SIZE) + (align - 1)), align)

Ret(s, ret) == [s |-> s, ret |-> IF Ok(s) THEN ret ELSE None]

\* The result of an allocation: the state, the pointer, and how the call
\* ended: "overflow" (line 498-499), "nomem" (line 500), "found" or "error"
AllocRet(s, ret, path) ==
    [s |-> s, ret |-> IF Ok(s) THEN ret ELSE None,
     path |-> IF Ok(s) THEN path ELSE "error"]

\* "Get a free block" and "Unlink the free block" (lines 502-522): the head
\* of list (fl, sl) is taken out; the head is reset only when a block follows
pop_first_free(s, fl, sl, search_size) ==
    LET block == s.first_free[fl][sl]
        size_and_flags == Rd(s, block + OFF_SIZE)
        next_free == Rd(s, block + OFF_NEXT_FREE)
        s1 == DebugAssert(
                  DebugAssert(
                      Touch(Touch(s, block + OFF_SIZE), block + OFF_NEXT_FREE),
                      ~HasFlag(size_and_flags, SIZE_USED)),
                  SIZE_SIZE_MASK(size_and_flags) >= search_size)
    IN IF block = None THEN Fail(s, "ub")
       ELSE IF next_free # None
       THEN set_first_free(Wr(s1, next_free + OFF_PREV_FREE, None), fl, sl, next_free)
       ELSE clear_bits(s1, fl, sl)

\* "Place a header pointer" (lines 541-544)
place_header_pointer(s, ptr, block, align) ==
    IF align >= GRANULARITY THEN Wr(s, ptr - USIZE_LEN, block) ELSE s

\* Lines 524-544: decide the payload address, initialize the payload, place
\* the header pointer
place_payload(s, block, align, init) ==
    LET unaligned_ptr == block + UsedBlockHdr_SIZE
        ptr == payload_ptr(block, align)
        s0 == DebugAssert(s, ~Overflows(unaligned_ptr))
        s1 == IF ptr = None THEN Fail(s0, "ub") ELSE s0
        s2 == DebugAssert(s1, IF align < GRANULARITY
                              THEN Wrap(unaligned_ptr) = ptr
                              ELSE Wrap(unaligned_ptr) # ptr)
    IN place_header_pointer(initer(s2, init, ptr), ptr, block, align)

\* Lines 572-577: next_phys_block.prev_phys_block = new_free_block
split_relink_next(s, next_phys, new_free_block) ==
    IF next_phys = None THEN s
    ELSE Wr(DebugAssert(IF debug_assertions
                        THEN Touch(s, next_phys + OFF_SIZE) ELSE s,
                        HasFlag(Rd(s, next_phys + OFF_SIZE), SIZE_USED)),
            next_phys + OFF_PREV_PHYS, new_free_block)

\* "The allocation partially fills this free block" (lines 562-587)
split_block(s, block, new_size, size_and_flags, next_phys) ==
    LET new_free_block == Wrap(block + new_size)
        nf_size_and_flags == size_and_flags - new_size
        s0 == DebugAssert(s, ~Overflows(nf_size_and_flags))
        s1 == split_relink_next(s0, next_phys, new_free_block)
        s2 == DebugAssert(s1, ~HasFlag(Wrap(nf_size_and_flags), SIZE_USED))
        s3 == Wr(Wr(s2, new_free_block + OFF_SIZE, Wrap(nf_size_and_flags)),
                 new_free_block + OFF_PREV_PHYS, block)
    IN link_free_block(s3, new_free_block,
                       SIZE_SIZE_MASK(Wrap(nf_size_and_flags)))

\* Lines 555-596: fill the block or split it, and mark it used
fill_or_split(s, block, new_size, size_and_flags, next_phys) ==
    IF new_size = ClearFlag(size_and_flags, SIZE_LAST_IN_POOL)
    THEN Wr(s, block + OFF_SIZE, SetFlag(size_and_flags, SIZE_USED))
    ELSE Wr(split_block(s, block, new_size, size_and_flags, next_phys),
            block + OFF_SIZE, SetFlag(new_size, SIZE_USED))

\* Lines 502-598 of allocate_initializing_by: take the head of list (fl, sl),
\* place the payload, split the block and mark it used
allocate_from_list(s, size, align, init, fl, sl, search_size, max_overhead) ==
    LET block == s.first_free[fl][sl]
        ptr == payload_ptr(block, align)
        overhead == ptr - block
        new_size0 == Wrap(overhead) + size
        new_size1 == Wrap(new_size0) + (GRANULARITY - 1)
        new_size == AlignDown(Wrap(new_size1), GRANULARITY)
        sA == pop_first_free(s, fl, sl, search_size)
        sB == place_payload(sA, block, align, init)
        sC == DebugAssert(
                  DebugAssert(
                      DebugAssert(DebugAssert(sB, ~Overflows(overhead)),
                                  Wrap(overhead) <= max_overhead),
                      ~Overflows(new_size0) /\ ~Overflows(new_size1)),
                  new_size <= search_size)
    IN AllocRet(fill_or_split(sC, block, new_size, Rd(s, block + OFF_SIZE),
                              next_phys_block(s, block)),
                ptr, "found")

\* Lines 494-500 of allocate_initializing_by, for the list idx the search
\* gave
allocate_searched(s, size, align, init, idx, search_size, max_overhead) ==
    IF idx = NoList THEN AllocRet(s, None, "nomem")
    ELSE IF Len(idx) = 1
    THEN AllocRet(Fail(DebugAssert(s, FALSE), "ub"), None, "error")
    ELSE allocate_from_list(s, size, align, init, idx[1], idx[2],
                            search_size, max_overhead)

\* allocate_initializing_by with wrapping additions in place of checked_add
allocate_wrapping(s, size, align, init) ==
    LET max_overhead ==
            (IF align > GRANULARITY \div 2 THEN align - GRANULARITY \div 2 ELSE 0)
                + UsedBlockHdr_SIZE
        search_size ==
            AlignDown((size + max_overhead + (GRANULARITY - 1)) % (USIZE_MAX + 1),
                      GRANULARITY)
    IN IF ~Ok(s) THEN AllocRet(s, None, "error")
       ELSE allocate_searched(
                s, size, align, init,
                search_suitable_free_block_list_for_allocation(s, search_size),
                search_size, max_overhead)

\* Tlsf::allocate_initializing_by
allocate_initializing_by(s, size, align, init) ==
    LET max_overhead ==
            (IF align > GRANULARITY \div 2 THEN align - GRANULARITY \div 2 ELSE 0)
                + UsedBlockHdr_SIZE
        search_size0 == size + max_overhead
        search_size1 == search_size0 + (GRANULARITY - 1)
        search_size == AlignDown(search_size1, GRANULARITY)
    IN IF ~Ok(s) THEN AllocRet(s, None, "error")
       ELSE IF Overflows(search_size0) \/ Overflows(search_size1)
       THEN AllocRet(s, None, "overflow")
       ELSE allocate_searched(
                s, size, align, init,
                search_suitable_free_block_list_for_allocation(s, search_size),
                search_size, max_overhead)

\* Tlsf::allocate
allocate(s, size, align) == allocate_initializing_by(s, size, align, NoInit)

----------------------------------------------------------------------------
(* Deallocation *)

\* Tlsf::used_block_hdr_for_allocation
used_block_hdr_for_allocation(s, ptr, align) ==
    IF align >= GRANULARITY THEN Rd(s, ptr - USIZE_LEN)
    ELSE Wrap(ptr - GRANULARITY \div 2)

\* The reads used_block_hdr_for_allocation makes, and NonNull::new_unchecked
touch_hdr(s, ptr, align) ==
    LET s0 == IF align >= GRANULARITY THEN Touch(s, ptr - USIZE_LEN) ELSE s
    IN IF used_block_hdr_for_allocation(s, ptr, align) = None
       THEN Fail(s0, "ub") ELSE s0

\* "Merge with the next block if it's a free block" (lines 681-705):
\* the state, the accumulated size and new_next_phys_block
dealloc_merge_next(s, block, size) ==
    LET next == next_phys_block(s, block)
        next_size == Rd(s, next + OFF_SIZE)
        s0 == DebugAssert(Touch(s, next + OFF_SIZE),
                          ~HasFlag(size, SIZE_LAST_IN_POOL))
        sum == size + next_size
    IN IF next = None \/ ~Ok(s)
       THEN [s |-> s, size |-> size, new_next |-> None]
       ELSE IF ~HasFlag(next_size, SIZE_USED)
       THEN [s |-> unlink_free_block(DebugAssert(s0, ~Overflows(sum)), next,
                                     SIZE_SIZE_MASK(next_size)),
             size |-> Wrap(sum),
             new_next |-> next_phys_block(s, next)]
       ELSE [s |-> s0, size |-> size, new_next |-> next]

\* "Merge with the previous block if it's a free block" (lines 707-725):
\* the state, the accumulated size and the block that is written
dealloc_merge_prev(s, block, size) ==
    LET prev == Rd(s, block + OFF_PREV_PHYS)
        s0 == Touch(s, block + OFF_PREV_PHYS)
        prev_size == Rd(s, prev + OFF_SIZE)
        s1 == DebugAssert(Touch(s0, prev + OFF_SIZE),
                          ~HasFlag(prev_size, SIZE_LAST_IN_POOL))
        sum == size + prev_size
    IN IF prev = None \/ ~Ok(s0)
       THEN [s |-> s0, size |-> size, block |-> block]
       ELSE IF ~HasFlag(prev_size, SIZE_USED)
       THEN [s |-> unlink_free_block(
                       DebugAssert(DebugAssert(s1, ~Overflows(sum)),
                                   SIZE_SIZE_MASK(prev_size) = prev_size),
                       prev, prev_size),
             size |-> Wrap(sum), block |-> prev]
       ELSE [s |-> s1, size |-> size, block |-> block]

\* "Link `new_next_phys_block.prev_phys_block` to `block`" (lines 735-742)
dealloc_relink_next(s, block, new_next) ==
    IF new_next = None \/ ~Ok(s) THEN s
    ELSE Wr(DebugAssert(s, new_next = next_phys_block(s, block)),
            new_next + OFF_PREV_PHYS, block)

\* Lines 727-742 of deallocate: write the free block and link it
dealloc_link(s, block, size, new_next) ==
    LET s2 == DebugAssert(s, ~HasFlag(size, SIZE_USED))
        s3 == Wr(s2, block + OFF_SIZE, size)
        s4 == link_free_block(s3, block, ClearFlag(size, SIZE_LAST_IN_POOL))
    IN dealloc_relink_next(s4, block, new_next)

\* Lines 707-742 of deallocate, p being what the merge with the previous
\* block gave
dealloc_after_prev(p, new_next) ==
    [s |-> dealloc_link(p.s, p.block, p.size, new_next), block |-> p.block]

\* Lines 707-742 of deallocate, n being what the merge with the next block
\* gave
dealloc_after_next(n, block) ==
    IF ~Ok(n.s) THEN [s |-> n.s, block |-> block]
    ELSE dealloc_after_prev(dealloc_merge_prev(n.s, block, n.size), n.new_next)

\* Tlsf::deallocate: [s |-> the state after, block |-> the free block written]
deallocate_block(s, ptr, align) ==
    LET block == used_block_hdr_for_allocation(s, ptr, align)
        word == Rd(s, block + OFF_SIZE)
        s1 == DebugAssert(Touch(touch_hdr(s, ptr, align), block + OFF_SIZE),
                          HasFlag(word, SIZE_USED))
    IN dealloc_after_next(
           dealloc_merge_next(s1, block, ClearFlag(word, SIZE_USED)), block)

deallocate(s, ptr, align) == deallocate_block(s, ptr, align).s

----------------------------------------------------------------------------
(* Reallocation *)

\* "Can fit and there's some slack" (lines 864-882); s is the state after the
\* next block was unlinked
grow_with_slack(s, block, new_size, rest_and_flags, rest, next_next) ==
    LET rest_block == Wrap(block + new_size)
        s0 == DebugAssert(s, ~HasFlag(rest_and_flags, SIZE_USED))
        s1 == Wr(Wr(s0, rest_block + OFF_SIZE, rest_and_flags),
                 rest_block + OFF_PREV_PHYS, block)
        s2 == link_free_block(s1, rest_block, rest)
    IN Wr(set_prev_phys_block(s2, next_next, rest_block),
          block + OFF_SIZE, SetFlag(new_size, SIZE_USED))

\* "Can fit exactly" (lines 883-892)
grow_exactly(s, block, new_size, next_size_and_flags, next_next) ==
    Wr(set_prev_phys_block(s, next_next, block), block + OFF_SIZE,
       SetFlag(new_size + (IF HasFlag(next_size_and_flags, SIZE_LAST_IN_POOL)
                           THEN SIZE_LAST_IN_POOL ELSE 0),
               SIZE_USED))

\* Lines 862-894, s being the state after unlink_free_block
grow_into(s, block, new_size, grow_by, next_size_and_flags, next_next) ==
    IF grow_by < SIZE_SIZE_MASK(next_size_and_flags)
    THEN grow_with_slack(s, block, new_size, next_size_and_flags - grow_by,
                         SIZE_SIZE_MASK(next_size_and_flags) - grow_by, next_next)
    ELSE grow_exactly(s, block, new_size, next_size_and_flags, next_next)

\* The growing branch of reallocate_without_moving (lines 840-894)
realloc_grow(s, ptr, block, new_size, old_size) ==
    LET grow_by == new_size - old_size
        next == next_phys_block(s, block)
        s0 == Touch(s, next + OFF_SIZE)
        next_size_and_flags == Rd(s, next + OFF_SIZE)
        next_size == SIZE_SIZE_MASK(next_size_and_flags)
    IN IF next = None THEN [s |-> s, ret |-> None]
       ELSE IF ~Ok(s0) THEN [s |-> s0, ret |-> None]
       ELSE IF HasFlag(next_size_and_flags, SIZE_USED) THEN [s |-> s, ret |-> None]
       ELSE IF grow_by > next_size THEN [s |-> s, ret |-> None]
       ELSE Ret(grow_into(unlink_free_block(s0, next, next_size), block,
                          new_size, grow_by, next_size_and_flags,
                          next_phys_block(s, next)),
                ptr)

\* Lines 917-921: the block after the merged one gets the new free block as
\* its prev_phys_block; s is the state after unlink_free_block
shrink_relink_next_next(s, next, new_free_block) ==
    IF ~Ok(s) THEN s
    ELSE set_prev_phys_block(s, next_phys_block(s, next), new_free_block)

\* Lines 905-927: merge the new free block with the next block, or make the
\* next block point back at it
shrink_next(s, next, next_size_and_flags, new_free_block) ==
    IF next = None THEN s
    ELSE IF ~HasFlag(next_size_and_flags, SIZE_USED)
    THEN shrink_relink_next_next(
             unlink_free_block(Touch(s, next + OFF_SIZE), next,
                               SIZE_SIZE_MASK(next_size_and_flags)),
             next, new_free_block)
    ELSE Wr(Touch(s, next + OFF_SIZE), next + OFF_PREV_PHYS, new_free_block)

\* The shrinking branch of reallocate_without_moving (lines 895-939).
\* shrink_by is new_size - old_size, as the source computes it.
realloc_shrink(s, ptr, block, new_size, old_size) ==
    LET shrink_by == new_size - old_size
        new_free_block == Wrap(block + new_size)
        nf0 == Wrap(Wrap(shrink_by)
                      + (IF HasFlag(Rd(s, block + OFF_SIZE), SIZE_LAST_IN_POOL)
                         THEN SIZE_LAST_IN_POOL ELSE 0))
        next == next_phys_block(s, block)
        next_size_and_flags == Rd(s, next + OFF_SIZE)
        next_size == SIZE_SIZE_MASK(next_size_and_flags)
        merge == next # None /\ ~HasFlag(next_size_and_flags, SIZE_USED)
        nf == IF merge THEN Wrap(nf0 + next_size) ELSE nf0
        s1 == shrink_next(DebugAssert(s, ~Overflows(shrink_by)), next,
                          next_size_and_flags, new_free_block)
        s2 == DebugAssert(DebugAssert(s1, ~merge \/ ~Overflows(nf0 + next_size)),
                          ~HasFlag(nf, SIZE_USED))
        s3 == Wr(Wr(s2, new_free_block + OFF_SIZE, nf),
                 new_free_block + OFF_PREV_PHYS, block)
        s4 == link_free_block(s3, new_free_block, SIZE_SIZE_MASK(nf))
    IN Ret(Wr(s4, block + OFF_SIZE, SetFlag(new_size, SIZE_USED)), ptr)

\* Lines 836-944 of reallocate_without_moving, s being the state after the
\* reads of the block header
resize(s, ptr, block, new_size, old_size) ==
    IF ~Ok(s) \/ Overflows(new_size) THEN [s |-> s, ret |-> None]
    ELSE IF new_size > old_size THEN realloc_grow(s, ptr, block, new_size, old_size)
    ELSE IF new_size < old_size THEN realloc_shrink(s, ptr, block, new_size, old_size)
    ELSE Ret(s, ptr)

\* Tlsf::reallocate_without_moving; new_layout_size is already rounded up
reallocate_without_moving(s, ptr, block, new_layout_size) ==
    resize(DebugAssert(Touch(s, block + OFF_SIZE), ~Overflows(ptr - block)),
           ptr, block, Wrap(ptr - block) + new_layout_size,
           SIZE_SIZE_MASK(Rd(s, block + OFF_SIZE)))

\* What a relocation returns, r being the result of the allocation and freed
\* the free block the old one became
relocated(r, freed) ==
    IF ~Ok(r.s) THEN [s |-> r.s, ret |-> None, path |-> "error", freed |-> None]
    ELSE [s |-> r.s, ret |-> r.ret, path |-> "moved", freed |-> freed]

\* The end of a relocation that allocates first: copy, then free the old block
copy_and_free(r, s, ptr, block, new_layout_size, align) ==
    LET old_len == SIZE_SIZE_MASK(Rd(s, block + OFF_SIZE)) - (ptr - block)
        n == IF old_len < new_layout_size THEN old_len ELSE new_layout_size
    IN IF ~Ok(r.s) \/ r.ret = None THEN relocated(r, block)
       ELSE relocated([s |-> deallocate(Copy(r.s, ptr, r.ret, n), ptr, align),
                       ret |-> r.ret], block)

\* A relocation that allocates first and gives the old block up only when the
\* new one exists
reallocate_by_copying(s, ptr, block, new_layout_size, align) ==
    copy_and_free(allocate_initializing_by(s, new_layout_size, align, NoInit),
                  s, ptr, block, new_layout_size, align)

\* Lines 792-816 of reallocate: d is what deallocate gave, head the saved
\* first GRANULARITY / 2 bytes
allocate_anew(d, ptr, block, new_layout_size, align, head) ==
    relocated(allocate_initializing_by(
                  d.s, new_layout_size, align,
                  [kind |-> "realloc", ptr |-> ptr, block |-> block,
                   head |-> head]),
              d.block)

\* The relocating path of Tlsf::reallocate (lines 782-816): save the head of
\* the payload, deallocate, allocate anew and copy
reallocate_by_moving(s, ptr, block, new_layout_size, align) ==
    allocate_anew(deallocate_block(Touch(Touch(s, ptr), ptr + USIZE_LEN),
                                   ptr, align),
                  ptr, block, new_layout_size, align,
                  <<Rd(s, ptr), Rd(s, ptr + USIZE_LEN)>>)

\* Lines 778-816 of reallocate, r1 being what reallocate_without_moving gave
reallocate_resized(r1, ptr, block, new_layout_size, align) ==
    IF ~Ok(r1.s)
    THEN [s |-> r1.s, ret |-> None, path |-> "error", freed |-> None]
    ELSE IF r1.ret # None
    THEN [s |-> r1.s, ret |-> r1.ret, path |-> "inplace", freed |-> None]
    ELSE reallocate_by_moving(r1.s, ptr, block, new_layout_size, align)

\* Tlsf::reallocate: [s, ret, path, freed]; path tells how the call ended and
\* freed is the free block the old one became on the relocating path
reallocate(s, ptr, size, align) ==
    LET block == used_block_hdr_for_allocation(s, ptr, align)
        s0 == touch_hdr(s, ptr, align)
        rounded == size + (GRANULARITY - 1)
        new_layout_size == AlignDown(rounded, GRANULARITY)
    IN IF ~Ok(s0) THEN [s |-> s0, ret |-> None, path |-> "error", freed |-> None]
       ELSE IF Overflows(rounded)
       THEN [s |-> s0, ret |-> None, path |-> "overflow", freed |-> None]
       ELSE reallocate_resized(
                reallocate_without_moving(s0, ptr, block, new_layout_size),
                ptr, block, new_layout_size, align)

----------------------------------------------------------------------------
(* The caller *)

\* The caller stores its data into a fresh allocation
store_data(s, ptr, size, fill) ==
    LET words == {o \in 0 .. (size - 1) : o % USIZE_LEN = 0}
    IN IF ~Ok(s) \/ ptr = None THEN s
       ELSE IF \E o \in words : (ptr + o) \notin Addr THEN Fail(s, "ub")
       ELSE [s EXCEPT !.mem =
                [a \in Addr |-> IF a >= ptr /\ a < ptr + size
                                THEN DataWord(fill, (a - ptr) \div USIZE_LEN)
                                ELSE s.mem[a]]]

\* The words at [ptr, ptr + n), where they are in the memory
Contents(m, ptr, n) ==
    [k \in 1 .. (n \div USIZE_LEN) |->
        LET a == ptr + (k - 1) * USIZE_LEN
        IN IF a \in Addr THEN m[a] ELSE -1]

\* growable_pool: None
NoPool == [alloc_start |-> None, alloc_end |-> None, pool_end |-> None]

\* The Tlsf that is used on its own has no source
NoSource == [supports_dealloc |-> FALSE, min_align |-> 1, allocs |-> {},
             brk |-> MemBase, log |-> <<>>]

\* the threads that call the global allocator
NumThreads == 2
Threads == 1 .. NumThreads

\* GlobalTlsf::INIT: the mutex is free and no thread is in a call
NoGlobal == [mutex |-> None, enable_reallocation |-> TRUE,
             pc |-> [t \in Threads |-> [at |-> "idle", op |-> "none"]]]

\* The MapParams of the Tlsf, before any call of it
NoMapped == [self |-> [sli |-> SLI, fllen |-> FLLEN], op |-> "none",
             size |-> 0, ret |-> None]

NoCall == [op |-> "none", ptr |-> None, size |-> 0, align |-> 1, ret |-> None,
           path |-> "", freed |-> None, others |-> {}, old |-> <<>>]

SetState(s) ==
    /\ mem' = s.mem
    /\ fl_bitmap' = s.fl_bitmap
    /\ sl_bitmap' = s.sl_bitmap
    /\ first_free' = s.first_free
    /\ err' = s.err

Init ==
    /\ mem \in {[a \in Addr |-> DataWord(f, a \div USIZE_LEN)] : f \in Fills}
    /\ fl_bitmap = {}
    /\ sl_bitmap = [fl \in 0 .. (FLLEN - 1) |-> {}]
    /\ first_free = [fl \in 0 .. (FLLEN - 1) |-> [sl \in 0 .. (SLLEN - 1) |-> None]]
    /\ err = "none"
    /\ debug_assertions \in BOOLEAN
    /\ inserted = {}
    /\ allocs = {}
    /\ last = NoCall
    /\ calls = 0
    /\ growable_pool = NoPool
    /\ source = NoSource
    /\ mapped = NoMapped
    /\ global = NoGlobal

\* insert_free_block_ptr on a region the allocator does not own yet
InsertFreeBlock(r) ==
    /\ r \notin inserted
    /\ SetState(insert_free_block_ptr(State, r.start, r.len))
    /\ inserted' = inserted \cup {r}
    /\ last' = [NoCall EXCEPT !.op = "insert", !.ptr = r.start, !.size = r.len]
    /\ UNCHANGED <<debug_assertions, allocs>>

\* What the caller does with the result r of allocate
Allocated(r, size, align, fill) ==
    /\ SetState(store_data(r.s, r.ret, size, fill))
    /\ allocs' = IF r.ret = None THEN allocs
                 ELSE allocs \cup {[ptr |-> r.ret, size |-> size, align |-> align]}
    /\ last' = [NoCall EXCEPT !.op = "allocate", !.size = size,
                   !.align = align, !.ret = r.ret, !.path = r.path,
                   !.others = allocs]

\* allocate(layout); on success the caller keeps the pointer and stores data
Allocate(size, align, fill) ==
    /\ Cardinality(allocs) < MaxAllocs
    /\ Allocated(allocate(State, size, align), size, align, fill)
    /\ UNCHANGED <<debug_assertions, inserted>>

\* deallocate(ptr, align) of a live allocation
Deallocate(a) ==
    /\ a \in allocs
    /\ SetState(deallocate(State, a.ptr, a.align))
    /\ allocs' = allocs \ {a}
    /\ last' = [NoCall EXCEPT !.op = "deallocate", !.ptr = a.ptr,
                   !.size = a.size, !.align = a.align, !.others = allocs \ {a}]
    /\ UNCHANGED <<debug_assertions, inserted>>

\* What the caller does with the result r of reallocate: it gives the old
\* pointer up when the block was moved or freed
Reallocated(r, a, size) ==
    /\ SetState(r.s)
    /\ allocs' = IF r.ret # None
                 THEN (allocs \ {a}) \cup
                          {[ptr |-> r.ret, size |-> size, align |-> a.align]}
                 ELSE IF r.path = "moved" THEN allocs \ {a}
                 ELSE allocs
    /\ last' = [NoCall EXCEPT !.op = "reallocate", !.ptr = a.ptr,
                   !.size = size, !.align = a.align, !.ret = r.ret,
                   !.path = r.path, !.freed = r.freed,
                   !.others = allocs \ {a},
                   !.old = Contents(mem, a.ptr,
                                    IF a.size < size THEN a.size ELSE size)]

\* reallocate(ptr, new_layout) of a live allocation, with the alignment it was
\* allocated with
Reallocate(a, size) ==
    /\ a \in allocs
    /\ Reallocated(reallocate(State, a.ptr, size, a.align), a, size)
    /\ UNCHANGED <<debug_assertions, inserted>>

\* One call of the caller
Called(max, A) ==
    /\ calls < max
    /\ err = "none"
    /\ A
    /\ calls' = calls + 1
    /\ UNCHANGED <<mapped, global>>

\* One call of a caller of the Tlsf
CallWithin(max, A) == Called(max, A) /\ UNCHANGED <<growable_pool, source>>

Next ==
    \/ \E r \in Regions : CallWithin(MaxCalls, InsertFreeBlock(r))
    \/ \E size \in Sizes, align \in Aligns, fill \in Fills : CallWithin(MaxCalls, Allocate(size, align, fill))
    \/ \E a \in allocs : CallWithin(MaxCalls, Deallocate(a))
    \/ \E a \in allocs, size \in Sizes : CallWithin(MaxCalls, Reallocate(a, size))

Spec == Init /\ [][Next]_vars

\* The caller whose one pool is a granule longer than the first region, which
\* lets a block that was allocated with the largest alignment end the pool
\* behind a block of two granules
NextRelocate ==
    \/ CallWithin(MaxCalls,
                  InsertFreeBlock([start |-> MemBase,
                                   len |-> (MainGranules + 1) * GRANULARITY]))
    \/ \E size \in Sizes, align \in Aligns, fill \in Fills :
          CallWithin(MaxCalls, Allocate(size, align, fill))
    \/ \E a \in allocs : CallWithin(MaxCalls, Deallocate(a))
    \/ \E a \in allocs, size \in Sizes : CallWithin(MaxCalls, Reallocate(a, size))

SpecRelocate == Init /\ [][NextRelocate]_vars

\* The caller never reallocates: insert_free_block, allocate and deallocate
NextNoRealloc ==
    \/ \E r \in Regions : CallWithin(MaxCallsNoRealloc, InsertFreeBlock(r))
    \/ \E size \in Sizes, align \in Aligns, fill \in Fills :
          CallWithin(MaxCallsNoRealloc, Allocate(size, align, fill))
    \/ \E a \in allocs : CallWithin(MaxCallsNoRealloc, Deallocate(a))

SpecNoRealloc == Init /\ [][NextNoRealloc]_vars

----------------------------------------------------------------------------
(* Pool sizing, and the caller that inserts one pool into an empty instance *)

\* Tlsf::map_ceil_and_unmap: MapParams::map_ceil_and_unmap with the SLI and
\* the FLLEN of the Tlsf
map_ceil_and_unmap(size) ==
    MapParams_map_ceil_and_unmap([sli |-> SLI, fllen |-> FLLEN], size)

\* Tlsf::pool_size_to_contain_allocation: the size allocate searches for,
\* rounded to its list's least size, plus one sentinel block where the sum
\* fits the word
pool_size_to_contain_allocation(size, align) ==
    LET max_overhead ==
            (IF align > GRANULARITY \div 2 THEN align - GRANULARITY \div 2 ELSE 0)
                + UsedBlockHdr_SIZE
        search_size == size + max_overhead + (GRANULARITY - 1)
        list_min_size == map_ceil_and_unmap(AlignDown(search_size, GRANULARITY))
    IN IF Overflows(size + max_overhead) \/ Overflows(search_size) THEN None
       ELSE IF list_min_size = None \/ Overflows(list_min_size + GRANULARITY)
       THEN None
       ELSE list_min_size + GRANULARITY

\* The layouts the pool-sizing test draws: align = (GRANULARITY / 2) << k
PoolLayouts ==
    [size : {0, 1, 4, 12, 20, 28, 44, 48, 52, USIZE_MAX - 3},
     align : {1, GRANULARITY \div 2, GRANULARITY}]

\* The regions the caller inserts: well-aligned pools of
\* pool_size_to_contain_allocation(l) bytes; regions of more than MAX_POOL_SIZE
\* bytes; and regions that hold no granule, one of them at the top of the
\* address space
PoolRegions ==
    {[start |-> MemBase,
      len |-> pool_size_to_contain_allocation(l.size, l.align)] :
        l \in {x \in PoolLayouts :
                  pool_size_to_contain_allocation(x.size, x.align) # None}}
    \cup
    {[start |-> MemBase, len |-> MAX_POOL_SIZE + GRANULARITY],
     [start |-> MemBase, len |-> LargeBytes],
     [start |-> MemBase + USIZE_LEN, len |-> LargeBytes - USIZE_LEN]}
    \cup
    {[start |-> USIZE_MAX - GRANULARITY + 1, len |-> 0],
     [start |-> USIZE_MAX - USIZE_LEN, len |-> USIZE_LEN],
     [start |-> MemBase, len |-> 0],
     [start |-> MemBase, len |-> GRANULARITY - 1],
     [start |-> MemBase + 1, len |-> 2 * GRANULARITY - 2],
     [start |-> MemBase + USIZE_LEN, len |-> GRANULARITY + USIZE_LEN]}

\* The caller inserts one pool, into an instance that has none yet, and
\* allocates
NextPool ==
    \/ \E r \in PoolRegions :
          CallWithin(MaxCallsPool, inserted = {} /\ InsertFreeBlock(r))
    \/ \E l \in PoolLayouts, fill \in Fills :
          CallWithin(MaxCallsPool, Allocate(l.size, l.align, fill))

SpecPool == Init /\ [][NextPool]_vars

----------------------------------------------------------------------------
(* The memory source of a FlexTlsf *)

\* Where the allocations of a source begin, and where its memory ends
SourceBase(min_align) == MemBase + (min_align % GRANULARITY)
SourceTop(min_align) == SourceBase(min_align) + MAX_POOL_SIZE + GRANULARITY

\* FlexTlsf { source, tlsf, growable_pool }
FlexState == [s |-> State, growable_pool |-> growable_pool, source |-> source]

FailF(f, e) == [f EXCEPT !.s = Fail(@, e)]

\* [start, end] of an allocation of the source
SourceRange(start, end) == [start |-> start, end |-> end]

\* A call the source got, its arguments and the allocations the source had
\* when it was called
SourceCall(f, op, start, end, arg) ==
    [op |-> op, start |-> start, end |-> end, arg |-> arg,
     allocs |-> f.source.allocs]

Logged(f, entry) == [f EXCEPT !.source.log = Append(@, entry)]

\* FlexSource::alloc: the source may refuse (answer = FALSE), and refuses
\* when its memory is used up
source_alloc(f, min_size, answer) ==
    IF answer /\ f.source.brk + min_size <= SourceTop(f.source.min_align)
    THEN [f |-> [Logged(f, SourceCall(f, "alloc", None, None, min_size))
                    EXCEPT !.source.allocs =
                               @ \cup {SourceRange(f.source.brk,
                                                   f.source.brk + min_size)},
                           !.source.brk = f.source.brk + min_size],
          range |-> SourceRange(f.source.brk, f.source.brk + min_size)]
    ELSE [f |-> Logged(f, SourceCall(f, "alloc", None, None, min_size)),
          range |-> SourceRange(None, None)]

\* FlexSource::realloc_inplace_grow: "[start, old_end] must be an existing
\* allocation made by this allocator", "min_new_end must be greater than or
\* equal to old_end", and a call that breaks the contract is undefined
\* behaviour; the source may refuse, and refuses when the allocation is not
\* its last one or its memory is used up
source_realloc_inplace_grow(f, start, old_end, min_new_end, answer) ==
    IF SourceRange(start, old_end) \notin f.source.allocs \/ min_new_end < old_end
    THEN [f |-> FailF(Logged(f, SourceCall(f, "realloc_inplace_grow", start,
                                           old_end, min_new_end)), "ub"),
          new_end |-> None]
    ELSE IF /\ answer
            /\ old_end = f.source.brk
            /\ min_new_end <= SourceTop(f.source.min_align)
    THEN [f |-> [Logged(f, SourceCall(f, "realloc_inplace_grow", start,
                                      old_end, min_new_end))
                    EXCEPT !.source.allocs =
                               (@ \ {SourceRange(start, old_end)})
                                   \cup {SourceRange(start, min_new_end)},
                           !.source.brk = min_new_end],
          new_end |-> min_new_end]
    ELSE [f |-> Logged(f, SourceCall(f, "realloc_inplace_grow", start,
                                     old_end, min_new_end)),
          new_end |-> None]

\* FlexSource::dealloc: the range "must be an existing allocation made by
\* this allocator"
source_dealloc(f, start, end) ==
    IF SourceRange(start, end) \in f.source.allocs
    THEN [Logged(f, SourceCall(f, "dealloc", start, end, None))
              EXCEPT !.source.allocs = @ \ {SourceRange(start, end)}]
    ELSE FailF(Logged(f, SourceCall(f, "dealloc", start, end, None)), "ub")

----------------------------------------------------------------------------
(* The pools of the Tlsf a FlexTlsf is built on *)

\* The sentinel block that ends a pool: a used block of one granule
sentinel_block(s, sentinel, prev) ==
    Wr(Wr(s, sentinel + OFF_SIZE,
          SetFlag(SetFlag(GRANULARITY, SIZE_USED), SIZE_LAST_IN_POOL)),
       sentinel + OFF_PREV_PHYS, prev)

\* A pool of one free block [start, start + size - GRANULARITY) and its
\* sentinel block
pool_blocks(s, start, size) ==
    sentinel_block(
        link_free_block(
            Wr(Wr(s, start + OFF_SIZE, size - GRANULARITY),
               start + OFF_PREV_PHYS, None),
            start, size - GRANULARITY),
        start + size - GRANULARITY, start)

\* Tlsf::insert_free_block_ptr as FlexTlsf calls it: it returns the end of the
\* pool it made, or None when the region has no room for a block and the
\* sentinel block
pool_insert_free_block_ptr(s, unaligned_start, len) ==
    IF insert_size(unaligned_start, len) < 2 * GRANULARITY
    THEN [s |-> s, pool_end |-> None]
    ELSE [s |-> pool_blocks(s, insert_start(unaligned_start),
                            insert_size(unaligned_start, len)),
          pool_end |-> insert_start(unaligned_start)
                           + insert_size(unaligned_start, len)]

\* The free block [block, block + size) that takes the place of the old
\* sentinel block, and the new sentinel block after it
appended_blocks(s, block, size, prev) ==
    sentinel_block(
        link_free_block(
            Wr(Wr(s, block + OFF_SIZE, size), block + OFF_PREV_PHYS, prev),
            block, size),
        block + size, block)

\* When the block before the old sentinel block is free, it is merged with
\* the appended bytes
append_to(s, sentinel, prev, len) ==
    IF prev # None /\ ~HasFlag(Rd(s, prev + OFF_SIZE), SIZE_USED)
    THEN appended_blocks(unlink_free_block(s, prev, Rd(s, prev + OFF_SIZE)),
                         prev, Rd(s, prev + OFF_SIZE) + len,
                         Rd(s, prev + OFF_PREV_PHYS))
    ELSE appended_blocks(s, sentinel, len, prev)

\* Tlsf::append_free_block_ptr: the bytes [pool_end, pool_end + len) are added
\* to the pool that ends at pool_end, merged with the free block at the end
\* of the pool if there is one; it returns the new end of the pool
append_free_block_ptr(s, pool_end, len) ==
    IF AlignDown(len, GRANULARITY) = 0 THEN [s |-> s, pool_end |-> pool_end]
    ELSE [s |-> append_to(Touch(s, pool_end - GRANULARITY + OFF_PREV_PHYS),
                          pool_end - GRANULARITY,
                          Rd(s, pool_end - GRANULARITY + OFF_PREV_PHYS),
                          AlignDown(len, GRANULARITY)),
          pool_end |-> pool_end + AlignDown(len, GRANULARITY)]

\* Tlsf::size_of_allocation: the payload size of the block of an allocation
size_of_allocation(s, ptr, align) ==
    SIZE_SIZE_MASK(Rd(s, used_block_hdr_for_allocation(s, ptr, align) + OFF_SIZE))
        - Wrap(ptr - used_block_hdr_for_allocation(s, ptr, align))

----------------------------------------------------------------------------
(* FlexTlsf *)

\* size_of::<PoolFtr>() and the offsets of its fields
PoolFtr_SIZE == GRANULARITY \div 2
OFF_PREV_ALLOC_END == 0
OFF_ALLOC_START == USIZE_LEN

\* PoolFtr::get_for_alloc_end
get_for_alloc_end(alloc_end, alloc_align) ==
    IF alloc_align < USIZE_LEN
    THEN AlignDown(Wrap(alloc_end - PoolFtr_SIZE), USIZE_LEN)
    ELSE Wrap(alloc_end - PoolFtr_SIZE)

\* The pool footer of the allocation that ends at alloc_end
pool_ftr(f, alloc_end) == get_for_alloc_end(alloc_end, f.source.min_align)

\* What increase_pool_to_contain_allocation returns: Some(()) or None
Increased(f, some) == [f |-> f, some |-> some /\ Ok(f.s)]

\* Lines 341-356: "Move PoolFtr"
move_pool_ftr(f, new_alloc_end) ==
    IF ~f.source.supports_dealloc THEN f
    ELSE [f EXCEPT !.s =
              Wr(Touch(@, pool_ftr(f, f.growable_pool.alloc_end)
                              + OFF_PREV_ALLOC_END),
                 pool_ftr(f, new_alloc_end) + OFF_PREV_ALLOC_END,
                 Rd(f.s, pool_ftr(f, f.growable_pool.alloc_end)
                             + OFF_PREV_ALLOC_END))]

\* Lines 370-375, app being what append_free_block_ptr gave.  The pool that
\* grew stays in growable_pool as it was.
pool_appended(f, app, new_alloc_end) ==
    [f EXCEPT !.s = DebugAssert(app.s, new_alloc_end - app.pool_end
                                           < GRANULARITY * 2)]

\* Lines 341-377: the source has grown the allocation to new_alloc_end
pool_grown(f, new_alloc_end) ==
    pool_appended(f,
                  append_free_block_ptr(f.s, f.growable_pool.pool_end,
                                        new_alloc_end - f.growable_pool.pool_end),
                  new_alloc_end)

\* Lines 422-445: link the footers and remember the pool
link_pool_ftr(f, range, pool_end) ==
    LET p == f.growable_pool
        s1 == IF f.source.supports_dealloc
              THEN Wr(f.s, pool_ftr(f, range.end) + OFF_PREV_ALLOC_END,
                      IF p = NoPool THEN None ELSE p.alloc_end)
              ELSE f.s
        s2 == IF f.source.supports_dealloc /\ p # NoPool
              THEN Wr(s1, pool_ftr(f, p.alloc_end) + OFF_ALLOC_START,
                      p.alloc_start)
              ELSE s1
    IN [f EXCEPT !.s = s2,
                 !.growable_pool = [alloc_start |-> range.start,
                                    alloc_end |-> range.end,
                                    pool_end |-> pool_end]]

\* Lines 409-447, ins being what insert_free_block_ptr gave
new_pool_inserted(f, range, ins) ==
    IF ins.pool_end = None
    THEN Increased(FailF([f EXCEPT !.s = DebugAssert(@, FALSE)], "ub"), FALSE)
    ELSE Increased(link_pool_ftr([f EXCEPT !.s = ins.s], range, ins.pool_end),
                   TRUE)

\* new_pool_allocated that forgets the growable pool when the source refuses
new_pool_allocated_forgetting(a) ==
    IF a.range = SourceRange(None, None)
    THEN Increased([a.f EXCEPT !.growable_pool = NoPool], FALSE)
    ELSE new_pool_inserted(a.f, a.range,
                           pool_insert_free_block_ptr(
                               a.f.s, a.range.start,
                               a.range.end - a.range.start))

\* Lines 405-447, a being what source.alloc gave
new_pool_allocated(a) ==
    IF a.range = SourceRange(None, None) THEN Increased(a.f, FALSE)
    ELSE new_pool_inserted(a.f, a.range,
                           pool_insert_free_block_ptr(
                               a.f.s, a.range.start,
                               a.range.end - a.range.start))

\* new_pool that pads an allocation of a badly aligned source with half a
\* granule
new_pool_half_padded(f, extra_bytes_well_aligned, alloc_answer) ==
    LET extra_bytes == IF f.source.min_align < GRANULARITY
                       THEN extra_bytes_well_aligned + GRANULARITY \div 2
                       ELSE extra_bytes_well_aligned
    IN IF Overflows(extra_bytes) THEN Increased(f, FALSE)
       ELSE new_pool_allocated(source_alloc(f, extra_bytes, alloc_answer))

\* Lines 381-447: "Create a brand new allocation"
new_pool(f, extra_bytes_well_aligned, alloc_answer) ==
    LET extra_bytes == IF f.source.min_align < GRANULARITY
                       THEN extra_bytes_well_aligned + GRANULARITY
                       ELSE extra_bytes_well_aligned
    IN IF Overflows(extra_bytes) THEN Increased(f, FALSE)
       ELSE new_pool_allocated(source_alloc(f, extra_bytes, alloc_answer))

\* grow_answered that creates a brand new allocation whatever the source gave
grow_answered_allocating(g, extra_bytes_well_aligned, alloc_answer) ==
    new_pool(g.f, extra_bytes_well_aligned, alloc_answer)

\* Lines 334-447, g being what source.realloc_inplace_grow gave
grow_answered(g, extra_bytes_well_aligned, alloc_answer) ==
    IF ~Ok(g.f.s) THEN Increased(g.f, FALSE)
    ELSE IF g.new_end # None
    THEN Increased(pool_grown(move_pool_ftr(g.f, g.new_end), g.new_end), TRUE)
    ELSE new_pool(g.f, extra_bytes_well_aligned, alloc_answer)

\* Lines 314-447: "Try to extend an existing memory pool first"
grow_pool(f, extra_bytes_well_aligned, grow_answer, alloc_answer) ==
    LET new_pool_end_desired == f.growable_pool.pool_end + extra_bytes_well_aligned
    IN IF Overflows(new_pool_end_desired) THEN Increased(f, FALSE)
       ELSE grow_answered(
                source_realloc_inplace_grow(
                    [f EXCEPT !.s = DebugAssert(@, new_pool_end_desired
                                                       >= f.growable_pool.alloc_end)],
                    f.growable_pool.alloc_start, f.growable_pool.alloc_end,
                    new_pool_end_desired, grow_answer),
                extra_bytes_well_aligned, alloc_answer)

\* FlexTlsf::increase_pool_to_contain_allocation; grow_answer and alloc_answer
\* tell whether the source is willing to grow and to allocate
increase_pool_to_contain_allocation(f, size, align, grow_answer, alloc_answer) ==
    LET extra_bytes_well_aligned == pool_size_to_contain_allocation(size, align)
    IN IF extra_bytes_well_aligned = None THEN Increased(f, FALSE)
       ELSE IF debug_assertions /\ extra_bytes_well_aligned < GRANULARITY * 2
       THEN Increased(FailF(f, "panic"), FALSE)
       ELSE IF f.growable_pool # NoPool
       THEN grow_pool(f, extra_bytes_well_aligned, grow_answer, alloc_answer)
       ELSE new_pool(f, extra_bytes_well_aligned, alloc_answer)

\* What a call of FlexTlsf returns
FlexRet(f, ret) == [f |-> f, ret |-> IF Ok(f.s) THEN ret ELSE None]

\* Lines 287-297, r being what the second tlsf.allocate gave
allocate_retried(f, r) ==
    IF r.ret # None THEN FlexRet([f EXCEPT !.s = r.s], r.ret)
    ELSE FlexRet([f EXCEPT !.s = DebugAssert(r.s, FALSE)], None)

\* Lines 285-297, i being what increase_pool_to_contain_allocation gave
allocate_increased(i, size, align) ==
    IF ~i.some THEN FlexRet(i.f, None)
    ELSE allocate_retried(i.f, allocate(i.f.s, size, align))

\* Lines 281-297, r being what the first tlsf.allocate gave
allocate_tried(f, r, size, align, grow_answer, alloc_answer) ==
    IF ~Ok(r.s) \/ r.ret # None THEN FlexRet([f EXCEPT !.s = r.s], r.ret)
    ELSE allocate_increased(
             increase_pool_to_contain_allocation(
                 [f EXCEPT !.s = r.s], size, align, grow_answer, alloc_answer),
             size, align)

\* FlexTlsf::allocate
FlexTlsf_allocate(f, size, align, grow_answer, alloc_answer) ==
    allocate_tried(f, allocate(f.s, size, align), size, align,
                   grow_answer, alloc_answer)

\* FlexTlsf::deallocate
FlexTlsf_deallocate(f, ptr, align) ==
    [f EXCEPT !.s = deallocate(@, ptr, align)]

\* Lines 507-516 of reallocate, a being what self.allocate gave
reallocate_allocated(a, ptr, size, align, old_size) ==
    IF a.ret = None THEN FlexRet(a.f, None)
    ELSE FlexRet(FlexTlsf_deallocate(
                     [a.f EXCEPT !.s = Copy(DebugAssert(@, size >= old_size),
                                            ptr, a.ret, old_size)],
                     ptr, align),
                 a.ret)

\* Lines 499-516 of reallocate, r being what tlsf.reallocate gave
reallocate_tried(f, r, ptr, size, align, old_size, grow_answer, alloc_answer) ==
    IF ~Ok(r.s) \/ r.ret # None THEN FlexRet([f EXCEPT !.s = r.s], r.ret)
    ELSE reallocate_allocated(
             FlexTlsf_allocate([f EXCEPT !.s = r.s], size, align,
                               grow_answer, alloc_answer),
             ptr, size, align, old_size)

\* FlexTlsf::reallocate
FlexTlsf_reallocate(f, ptr, size, align, grow_answer, alloc_answer) ==
    reallocate_tried(f, reallocate(f.s, ptr, size, align), ptr, size, align,
                     size_of_allocation(f.s, ptr, align),
                     grow_answer, alloc_answer)

\* The `while let` loop of drop, d being the state after the dealloc of one
\* pool: go on with the pool that the footer at prev_alloc_end names
RECURSIVE drop_pools(_, _, _, _)
drop_next(d, prev_alloc_end) ==
    IF prev_alloc_end = None \/ ~Ok(d.s) THEN d
    ELSE drop_pools(
             [d EXCEPT !.s = Touch(Touch(@, pool_ftr(d, prev_alloc_end)
                                                + OFF_ALLOC_START),
                                   pool_ftr(d, prev_alloc_end)
                                       + OFF_PREV_ALLOC_END)],
             Rd(d.s, pool_ftr(d, prev_alloc_end) + OFF_ALLOC_START),
             prev_alloc_end,
             Rd(d.s, pool_ftr(d, prev_alloc_end) + OFF_PREV_ALLOC_END))

\* One round of the loop: dealloc([alloc_start, alloc_end])
drop_pools(f, alloc_start, alloc_end, prev_alloc_end) ==
    drop_next(source_dealloc(f, alloc_start, alloc_end), prev_alloc_end)

\* Drop for FlexTlsf
FlexTlsf_drop(f) ==
    IF ~f.source.supports_dealloc \/ f.growable_pool = NoPool THEN f
    ELSE drop_pools(
             [f EXCEPT !.s = Touch(@, pool_ftr(f, f.growable_pool.alloc_end)
                                          + OFF_PREV_ALLOC_END)],
             f.growable_pool.alloc_start, f.growable_pool.alloc_end,
             Rd(f.s, pool_ftr(f, f.growable_pool.alloc_end) + OFF_PREV_ALLOC_END))

----------------------------------------------------------------------------
(* The caller of a FlexTlsf *)

\* calls the caller of a FlexTlsf makes
MaxCallsFlex == 3
\* calls the caller of a FlexTlsf that never reallocates makes
MaxCallsFlexNoRealloc == 5

FlexAligns == {GRANULARITY \div 2, GRANULARITY}
FlexSizes == {4, 12}

\* FlexTlsf::new(source)
InitFlex ==
    /\ mem \in {[a \in Addr |-> DataWord(f, a \div USIZE_LEN)] : f \in Fills}
    /\ fl_bitmap = {}
    /\ sl_bitmap = [fl \in 0 .. (FLLEN - 1) |-> {}]
    /\ first_free = [fl \in 0 .. (FLLEN - 1) |-> [sl \in 0 .. (SLLEN - 1) |-> None]]
    /\ err = "none"
    /\ debug_assertions \in BOOLEAN
    /\ inserted = {}
    /\ allocs = {}
    /\ last = NoCall
    /\ calls = 0
    /\ growable_pool = NoPool
    /\ source \in {[supports_dealloc |-> d, min_align |-> a, allocs |-> {},
                      brk |-> SourceBase(a), log |-> <<>>] :
                         d \in BOOLEAN, a \in {GRANULARITY \div 2, GRANULARITY}}
    /\ mapped = NoMapped
    /\ global = NoGlobal

\* What the caller does with the result r of FlexTlsf::allocate
FlexAllocated(r, size, align, fill) ==
    /\ Allocated([s |-> r.f.s, ret |-> r.ret, path |-> ""], size, align, fill)
    /\ growable_pool' = r.f.growable_pool
    /\ source' = r.f.source

\* FlexTlsf::allocate(layout)
FlexAllocate(size, align, fill, grow_answer, alloc_answer) ==
    /\ last.op # "drop"
    /\ Cardinality(allocs) < MaxAllocs
    /\ FlexAllocated(FlexTlsf_allocate(FlexState, size, align,
                                       grow_answer, alloc_answer),
                     size, align, fill)
    /\ UNCHANGED <<debug_assertions, inserted>>

FlexDeallocated(f, a) ==
    /\ SetState(f.s)
    /\ growable_pool' = f.growable_pool
    /\ source' = f.source
    /\ allocs' = allocs \ {a}
    /\ last' = [NoCall EXCEPT !.op = "deallocate", !.ptr = a.ptr,
                   !.size = a.size, !.align = a.align, !.others = allocs \ {a}]

\* FlexTlsf::deallocate(ptr, align) of a live allocation
FlexDeallocate(a) ==
    /\ last.op # "drop"
    /\ a \in allocs
    /\ FlexDeallocated(FlexTlsf_deallocate(FlexState, a.ptr, a.align), a)
    /\ UNCHANGED <<debug_assertions, inserted>>

\* What the caller does with the result r of FlexTlsf::reallocate: on
\* success it gives the old pointer up
FlexReallocated(r, a, size) ==
    /\ SetState(r.f.s)
    /\ growable_pool' = r.f.growable_pool
    /\ source' = r.f.source
    /\ allocs' = IF r.ret # None
                 THEN (allocs \ {a}) \cup
                          {[ptr |-> r.ret, size |-> size, align |-> a.align]}
                 ELSE allocs
    /\ last' = [NoCall EXCEPT !.op = "reallocate", !.ptr = a.ptr,
                   !.size = size, !.align = a.align, !.ret = r.ret,
                   !.others = allocs \ {a},
                   !.old = Contents(mem, a.ptr,
                                    IF a.size < size THEN a.size ELSE size)]

\* FlexTlsf::reallocate(ptr, new_layout) of a live allocation
FlexReallocate(a, size, grow_answer, alloc_answer) ==
    /\ last.op # "drop"
    /\ a \in allocs
    /\ FlexReallocated(FlexTlsf_reallocate(FlexState, a.ptr, size, a.align,
                                           grow_answer, alloc_answer),
                       a, size)
    /\ UNCHANGED <<debug_assertions, inserted>>

FlexDropped(f) ==
    /\ SetState(f.s)
    /\ growable_pool' = f.growable_pool
    /\ source' = f.source
    /\ last' = [NoCall EXCEPT !.op = "drop", !.others = allocs]

\* The FlexTlsf goes out of scope
FlexDrop ==
    /\ last.op # "drop"
    /\ FlexDropped(FlexTlsf_drop(FlexState))
    /\ UNCHANGED <<debug_assertions, inserted, allocs>>

\* The calls of the caller of a FlexTlsf; nothing is called after the drop
NextFlex ==
    \/ \E size \in FlexSizes, align \in FlexAligns, fill \in Fills,
          grow_answer \in BOOLEAN, alloc_answer \in BOOLEAN :
          Called(MaxCallsFlex,
                 FlexAllocate(size, align, fill, grow_answer, alloc_answer))
    \/ \E a \in allocs : Called(MaxCallsFlex, FlexDeallocate(a))
    \/ \E a \in allocs, size \in FlexSizes,
          grow_answer \in BOOLEAN, alloc_answer \in BOOLEAN :
          Called(MaxCallsFlex,
                 FlexReallocate(a, size, grow_answer, alloc_answer))
    \/ Called(MaxCallsFlex, FlexDrop)

SpecFlex == InitFlex /\ [][NextFlex]_vars

\* The caller of a FlexTlsf that only allocates and deallocates
NextFlexNoRealloc ==
    \/ \E size \in FlexSizes, align \in FlexAligns, fill \in Fills,
          grow_answer \in BOOLEAN, alloc_answer \in BOOLEAN :
          Called(MaxCallsFlexNoRealloc,
                 FlexAllocate(size, align, fill, grow_answer, alloc_answer))
    \/ \E a \in allocs : Called(MaxCallsFlexNoRealloc, FlexDeallocate(a))

SpecFlexNoRealloc == InitFlex /\ [][NextFlexNoRealloc]_vars

\* calls the caller of cannot_alloc_max_usize_minus_some makes
MaxCallsHuge == 3

\* cannot_alloc_max_usize_minus_some, which asks for usize::MAX - offset bytes
\* with align 1, in a program that allocates
NextFlexHuge ==
    \/ \E size \in FlexSizes, align \in FlexAligns, fill \in Fills,
          grow_answer \in BOOLEAN, alloc_answer \in BOOLEAN :
          Called(MaxCallsHuge,
                 FlexAllocate(size, align, fill, grow_answer, alloc_answer))
    \/ \E size \in {USIZE_MAX - offset : offset \in {0, 8, 16, 24, 32, 40, 48, 56}},
          fill \in Fills,
          grow_answer \in BOOLEAN, alloc_answer \in BOOLEAN :
          Called(MaxCallsHuge,
                 FlexAllocate(size, 1, fill, grow_answer, alloc_answer))

SpecFlexHuge == InitFlex /\ [][NextFlexHuge]_vars

----------------------------------------------------------------------------
(* The caller of a MapParams *)

\* the longest mantissa of the sizes the caller draws
MaxMantissa == 15

\* The sizes map_ceil_and_unmap and map_ceil_and_unmap_huge draw: non-zero
\* multiples of GRANULARITY, here a short mantissa shifted, a run of ones at
\* the top or at the bottom of the word, and a power of two plus GRANULARITY
MapSizes ==
    {size \in
         {Wrap(m * 2 ^ j * GRANULARITY) :
              m \in 1 .. MaxMantissa, j \in 0 .. (USIZE_BITS - 1)}
         \cup {Wrap(USIZE_MAX * 2 ^ j) : j \in GRANULARITY_LOG2 .. (USIZE_BITS - 1)}
         \cup {2 ^ j - GRANULARITY : j \in (GRANULARITY_LOG2 + 1) .. USIZE_BITS}
         \cup {2 ^ j + GRANULARITY : j \in (GRANULARITY_LOG2 + 1) .. (USIZE_BITS - 1)} :
        size # 0}

\* A Tlsf of some parameters, before any call: SLLEN = 1 << sli up to 32,
\* FLLEN up to the bits of its bitmap
InitMap ==
    /\ mem \in {[a \in Addr |-> DataWord(f, a \div USIZE_LEN)] : f \in Fills}
    /\ fl_bitmap = {}
    /\ sl_bitmap = [fl \in 0 .. (FLLEN - 1) |-> {}]
    /\ first_free = [fl \in 0 .. (FLLEN - 1) |-> [sl \in 0 .. (SLLEN - 1) |-> None]]
    /\ err = "none"
    /\ debug_assertions \in BOOLEAN
    /\ inserted = {}
    /\ allocs = {}
    /\ last = NoCall
    /\ calls = 0
    /\ growable_pool = NoPool
    /\ source = NoSource
    /\ mapped \in {[NoMapped EXCEPT !.self = self] :
                      self \in [sli : 0 .. 5, fllen : 1 .. USIZE_BITS]}
    /\ global = NoGlobal

\* One draw of the caller: the size it passed and what it got
MapCalled(op, size, ret) ==
    /\ mapped.op = "none"
    /\ mapped' = [mapped EXCEPT !.op = op, !.size = size, !.ret = ret]
    /\ UNCHANGED <<mem, fl_bitmap, sl_bitmap, first_free, err, debug_assertions,
                   inserted, allocs, last, calls, growable_pool, source, global>>

\* The caller draws a size and calls map_floor, map_ceil or
\* map_ceil_and_unmap
NextMap ==
    \/ \E size \in MapSizes :
          MapCalled("map_floor", size, MapParams_map_floor(mapped.self, size))
    \/ \E size \in MapSizes :
          MapCalled("map_ceil", size, MapParams_map_ceil(mapped.self, size))
    \/ \E size \in MapSizes :
          MapCalled("map_ceil_and_unmap", size,
                    MapParams_map_ceil_and_unmap(mapped.self, size))

SpecMap == InitMap /\ [][NextMap]_vars

----------------------------------------------------------------------------
(* GlobalTlsf: the threads of a program whose global allocator it is *)

\* A GlobalTlsf built with some GlobalTlsfOptions
InitGlobal ==
    /\ mem \in {[a \in Addr |-> DataWord(f, a \div USIZE_LEN)] : f \in Fills}
    /\ fl_bitmap = {}
    /\ sl_bitmap = [fl \in 0 .. (FLLEN - 1) |-> {}]
    /\ first_free = [fl \in 0 .. (FLLEN - 1) |-> [sl \in 0 .. (SLLEN - 1) |-> None]]
    /\ err = "none"
    /\ debug_assertions \in BOOLEAN
    /\ inserted = {}
    /\ allocs = {}
    /\ last = NoCall
    /\ calls = 0
    /\ growable_pool = NoPool
    /\ source = NoSource
    /\ mapped = NoMapped
    /\ global \in {[NoGlobal EXCEPT !.enable_reallocation = e] : e \in BOOLEAN}

\* One step of thread t, which takes it to pc and leaves the mutex to holder
GlobalStep(t, pc, holder) ==
    /\ global' = [global EXCEPT !.pc[t] = pc, !.mutex = holder]
    /\ UNCHANGED <<mem, fl_bitmap, sl_bitmap, first_free, err, debug_assertions,
                   inserted, allocs, last, calls, growable_pool, source, mapped>>

\* Thread t calls GlobalAlloc::alloc, dealloc or realloc
GlobalCall(t, op) ==
    /\ global.pc[t].at = "idle"
    /\ GlobalStep(t, [at |-> "lock_inner", op |-> op], global.mutex)

\* lock_inner that goes on whether the mutex is free or not
lock_inner_without_mutex(t) ==
    /\ global.pc[t].at = "lock_inner"
    /\ GlobalStep(t, [global.pc[t] EXCEPT !.at = "guarded"], t)

\* GlobalTlsf::lock_inner: Mutex::lock, which is pthread_mutex_lock and
\* returns when the mutex is t's, then LockGuard(self)
lock_inner(t) ==
    /\ global.pc[t].at = "lock_inner"
    /\ global.mutex = None
    /\ GlobalStep(t, [global.pc[t] EXCEPT !.at = "guarded"], t)

\* LockGuard::deref_mut and the start of the operation on the inner FlexTlsf
inner_begin(t) ==
    /\ global.pc[t].at = "guarded"
    /\ GlobalStep(t, [global.pc[t] EXCEPT !.at = "inner"], global.mutex)

\* The end of the operation on the inner FlexTlsf, by return or by panic.
\* realloc without ENABLE_REALLOCATION allocates and, given a block (some),
\* copies and deallocates under the same guard.
inner_end(t, some) ==
    /\ global.pc[t].at = "inner"
    /\ GlobalStep(t,
                  IF /\ global.pc[t].op = "realloc"
                     /\ ~global.enable_reallocation
                     /\ some
                  THEN [at |-> "guarded", op |-> "realloc_deallocate"]
                  ELSE [global.pc[t] EXCEPT !.at = "return"],
                  global.mutex)

\* LockGuard::drop at the end of the call: Mutex::unlock
drop_guard(t) ==
    /\ global.pc[t].at = "return"
    /\ GlobalStep(t, [at |-> "idle", op |-> "none"], None)

NextGlobal ==
    \/ \E t \in Threads, op \in {"alloc", "dealloc", "realloc"} : GlobalCall(t, op)
    \/ \E t \in Threads : lock_inner(t)
    \/ \E t \in Threads : inner_begin(t)
    \/ \E t \in Threads, some \in BOOLEAN : inner_end(t, some)
    \/ \E t \in Threads : drop_guard(t)

SpecGlobal == InitGlobal /\ [][NextGlobal]_vars

----------------------------------------------------------------------------
(* What the properties speak of *)

Bytes(ptr, size) == ptr .. (ptr + size - 1)

\* The bytes of the regions passed to insert_free_block_ptr
PoolBytes == UNION {Bytes(r.start, r.len) : r \in inserted}

Returned == err = "none" /\ last.ret # None

\* The returned range is inside the pools and shares no byte with the other
\* live allocations
RangeIsExclusive ==
    /\ Bytes(last.ret, last.size) \subseteq PoolBytes
    /\ \A o \in last.others :
          Bytes(o.ptr, o.size) \cap Bytes(last.ret, last.size) = {}

\* The pool chunks insert_free_block_ptr made of the inserted regions
Chunks ==
    {[start |-> insert_start(r.start), size |-> insert_size(r.start, r.len)] :
        r \in {x \in inserted : insert_size(x.start, x.len) > 0}}

Word(a) == IF a \in Addr THEN mem[a] ELSE 0

\* The blocks of a chunk in address order, found as next_phys_block finds them
RECURSIVE PhysWalk(_, _, _)
PhysWalk(b, c, n) ==
    IF n = 0 \/ b \notin Addr \/ b < c.start \/ b >= c.start + c.size THEN <<>>
    ELSE IF HasFlag(Word(b), SIZE_LAST_IN_POOL) \/ SIZE_SIZE_MASK(Word(b)) = 0
    THEN <<b>>
    ELSE <<b>> \o PhysWalk(b + SIZE_SIZE_MASK(Word(b)), c, n - 1)

PhysBlocks(c) == PhysWalk(c.start, c, c.size \div USIZE_LEN)

IsFree(b) == ~HasFlag(Word(b), SIZE_USED)

FreeBlocks ==
    UNION {{PhysBlocks(c)[i] : i \in DOMAIN PhysBlocks(c)} : c \in Chunks}
        \cap {b \in Addr : IsFree(b)}

\* The blocks of a free list, following next_free from the head
RECURSIVE ListWalk(_, _)
ListWalk(b, n) ==
    IF n = 0 \/ b = None \/ b \notin Addr THEN <<>>
    ELSE <<b>> \o ListWalk(Word(b + OFF_NEXT_FREE), n - 1)

FreeList(fl, sl) == ListWalk(first_free[fl][sl], MemBytes \div USIZE_LEN)

Lists == (0 .. (FLLEN - 1)) \X (0 .. (SLLEN - 1))

Occurrences(b, l) == Cardinality({i \in DOMAIN FreeList(l[1], l[2]) : FreeList(l[1], l[2])[i] = b})

----------------------------------------------------------------------------
(* C1 *)

\* C1: in a run of insert_free_block, allocate and deallocate calls, the range
\* of every successful allocate lies inside the inserted pool memory and
\* shares no byte with a live allocation.
C1_AllocateIsExclusive ==
    (Returned /\ last.op = "allocate") => RangeIsExclusive

(* C2 *)

\* C2: every pointer allocate returns is a multiple of layout.align.
C2_AllocateIsAligned ==
    (Returned /\ last.op = "allocate") => last.ret % last.align = 0

C2_Witness ==
    /\ Returned /\ last.op = "allocate"
    /\ last.align = 2 * GRANULARITY
    /\ last.ret % last.align = 0
    /\ Cardinality(last.others) > 0

(* C3 *)

\* C3: a successful reallocate returns a range that is aligned, inside the
\* inserted pool memory, and disjoint from every other live allocation.
C3_ReallocateIsExclusive ==
    (Returned /\ last.op = "reallocate")
        => (last.ret % last.align = 0 /\ RangeIsExclusive)

(* C4 *)

\* C4: after a successful reallocate the first min(old size, new size) bytes
\* at the returned pointer are the bytes the allocation held before the call.
C4_ReallocateKeepsContents ==
    (Returned /\ last.op = "reallocate")
        => Contents(mem, last.ret, Len(last.old) * USIZE_LEN) = last.old

(* C5 *)

C6_FailedReallocateKeeps ==
    (err = "none" /\ last.op = "reallocate" /\ last.ret = None)
    => LET b == IF last.align >= GRANULARITY THEN Word(last.ptr - USIZE_LEN)
                ELSE last.ptr - GRANULARITY \div 2
       IN b \in Addr /\ ~IsFree(b)

(* C7 *)

\* The size allocate searches for, or -1 when computing it overflows
SearchSize(size, align) ==
    LET max_overhead ==
            (IF align > GRANULARITY \div 2 THEN align - GRANULARITY \div 2 ELSE 0)
                + GRANULARITY \div 2
        rounded == size + max_overhead + (GRANULARITY - 1)
    IN IF rounded > USIZE_MAX THEN -1 ELSE AlignDown(rounded, GRANULARITY)

\* No list that map_ceil(search size) or a later index names has its bit set
NoSuitableList(size, align) ==
    LET idx == map_ceil(SearchSize(size, align))
    IN \/ SearchSize(size, align) = -1
       \/ idx = NoList
       \/ /\ \A sl \in sl_bitmap[idx[1]] : sl < idx[2]
          /\ \A fl \in fl_bitmap : fl <= idx[1]

\* C7: an allocate whose size plus overhead overflows the word, or that finds
\* no suitable non-empty free list, returns failure, leaves the bitmaps, the
\* list heads and the memory (every block header) as they were, and raises no
\* panic or assertion.
C7_FailedAllocateChangesNothing ==
    [][(calls' = calls + 1 /\ last'.op = "allocate"
            /\ NoSuitableList(last'.size, last'.align))
        => (err' = "none" /\ last'.ret = None
            /\ UNCHANGED <<mem, fl_bitmap, sl_bitmap, first_free>>)]_vars

C7_Witness ==
    /\ last.op = "allocate" /\ last.path = "nomem"
    /\ fl_bitmap # {}
    /\ allocs # {}

(* C8 *)

\* C8: every free block is linked into exactly one free list, the list
\* map_floor gives for its size, and appears in it exactly once.
C8_FreeBlocksAreListed ==
    err = "none" =>
        \A b \in FreeBlocks :
            /\ map_floor(SIZE_SIZE_MASK(Word(b))) # NoList
            /\ \A l \in Lists :
                  Occurrences(b, l) =
                      IF l = map_floor(SIZE_SIZE_MASK(Word(b))) THEN 1 ELSE 0

(* C9 *)

\* C9: bit j of sl_bitmap[i] is set exactly when first_free[i][j] is not null,
\* and bit i of fl_bitmap is set exactly when sl_bitmap[i] is not zero.
C9_BitmapsMatchLists ==
    err = "none" =>
        /\ \A l \in Lists : (l[2] \in sl_bitmap[l[1]]) <=> (first_free[l[1]][l[2]] # None)
        /\ \A fl \in 0 .. (FLLEN - 1) : (fl \in fl_bitmap) <=> (sl_bitmap[fl] # {})

(* C10 *)

\* C10: no free block of a pool is physically next to another free block of
\* the same pool.
C10_NoAdjacentFreeBlocks ==
    err = "none" =>
        \A c \in Chunks :
            \A i \in 1 .. (Len(PhysBlocks(c)) - 1) :
                ~(IsFree(PhysBlocks(c)[i]) /\ IsFree(PhysBlocks(c)[i + 1]))

(* C11 *)

\* The blocks of every pool chunk
AllBlocks ==
    UNION {{PhysBlocks(c)[i] : i \in DOMAIN PhysBlocks(c)} : c \in Chunks}

\* The size field without its two flag bits
SizeField(b) == Word(b) - (Word(b) % (2 * SIZE_LAST_IN_POOL))

\* C11: after every call, the size field of every block, with the flag bits
\* masked off, is a multiple of GRANULARITY and at least GRANULARITY, and every
\* block starts at a multiple of GRANULARITY.
C11_BlockSizesAreGranular ==
    err = "none" =>
        \A b \in AllBlocks :
            /\ SizeField(b) % GRANULARITY = 0
            /\ SizeField(b) >= GRANULARITY
            /\ b % GRANULARITY = 0

(* C12 *)

\* C12: after every call, the block that starts where a block that is not the
\* last of its pool ends has that block as its prev_phys_block, and the first
\* block of every pool has no prev_phys_block.
C12_PrevPhysIsPredecessor ==
    err = "none" =>
        \A c \in Chunks :
            /\ Word(c.start + OFF_PREV_PHYS) = None
            /\ \A b \in {PhysBlocks(c)[i] : i \in DOMAIN PhysBlocks(c)} :
                  ~HasFlag(Word(b), SIZE_LAST_IN_POOL)
                      => Word(b + SizeField(b) + OFF_PREV_PHYS) = b

(* C13 *)

\* C13: once every allocation obtained by allocate has been deallocated, each
\* pool chunk is again one free block of the size of the chunk, with
\* LAST_IN_POOL set and no previous physical block.
C13_DeallocateRestoresPools ==
    (err = "none" /\ allocs = {}) =>
        \A c \in Chunks :
            /\ Word(c.start + OFF_SIZE) = SetFlag(c.size, SIZE_LAST_IN_POOL)
            /\ Word(c.start + OFF_PREV_PHYS) = None

(* C14 *)

\* The only pool of the instance, when there is exactly one
TheRegion == CHOOSE r \in inserted : TRUE

\* C14: when pool_size_to_contain_allocation(l) returns n, n is a multiple of
\* GRANULARITY and, on an empty instance, inserting a GRANULARITY-aligned pool
\* of n bytes and then calling allocate(l) succeeds.
C14_SizedPoolContainsAllocation ==
    (calls = 2 /\ last.op = "allocate" /\ Cardinality(inserted) = 1) =>
        ((TheRegion.start % GRANULARITY = 0
            /\ pool_size_to_contain_allocation(last.size, last.align) # None
            /\ TheRegion.len =
                  pool_size_to_contain_allocation(last.size, last.align))
         => (TheRegion.len % GRANULARITY = 0 /\ err = "none"
                /\ last.ret # None))

(* C15 *)

\* The start of a region rounded up and its length rounded down to
\* GRANULARITY, computed without wrapping
AlignedStart(r) ==
    r.start + ((GRANULARITY - (r.start % GRANULARITY)) % GRANULARITY)
AlignedLen(r) ==
    LET x == r.len - (AlignedStart(r) - r.start)
    IN IF x < 0 THEN x ELSE x - (x % GRANULARITY)

\* From b to end lie pool chunks one after another: each a free block, last
\* of its pool, without a previous block, of at most MAX_POOL_SIZE bytes
RECURSIVE ChunksCover(_, _)
ChunksCover(b, end) ==
    IF b = end THEN TRUE
    ELSE /\ b < end
         /\ HasFlag(Word(b + OFF_SIZE), SIZE_LAST_IN_POOL)
         /\ IsFree(b)
         /\ Word(b + OFF_PREV_PHYS) = None
         /\ SizeField(b) >= GRANULARITY
         /\ SizeField(b) <= MAX_POOL_SIZE
         /\ ChunksCover(b + SizeField(b), end)

\* C15: inserting a region whose aligned length exceeds MAX_POOL_SIZE makes
\* several pool chunks, each one free block of at most MAX_POOL_SIZE bytes with
\* LAST_IN_POOL set and no previous block, one after another, that do not
\* overlap and together cover the aligned region.
C15_LargeRegionIsChunked ==
    (calls = 1 /\ last.op = "insert" /\ Cardinality(inserted) = 1) =>
        (AlignedLen(TheRegion) > MAX_POOL_SIZE
         => (err = "none"
                /\ ChunksCover(AlignedStart(TheRegion),
                               AlignedStart(TheRegion) + AlignedLen(TheRegion))))

(* C16 *)

\* C16: insert_free_block_ptr on a region whose length, after rounding the
\* start up and the length down to GRANULARITY, is below GRANULARITY changes
\* no allocator state and does not panic, and allocate(1, 1) on the otherwise
\* empty instance then returns failure.
C16_SmallRegionIsIgnored ==
    [][/\ (last'.op = "insert" /\ calls' = calls + 1
            /\ AlignedLen([start |-> last'.ptr, len |-> last'.size])
                   < GRANULARITY)
           => (err' = "none"
                  /\ UNCHANGED <<mem, fl_bitmap, sl_bitmap, first_free>>)
       /\ (last'.op = "allocate" /\ calls' = calls + 1
            /\ last'.size = 1 /\ last'.align = 1
            /\ \A r \in inserted : AlignedLen(r) < GRANULARITY)
           => (err' = "none" /\ last'.ret = None)]_vars

\* A region below GRANULARITY was inserted, then allocate(1, 1) failed
C16_Witness ==
    /\ err = "none" /\ calls = 2
    /\ last.op = "allocate" /\ last.size = 1 /\ last.align = 1
    /\ last.ret = None
    /\ inserted = {[start |-> USIZE_MAX - GRANULARITY + 1, len |-> 0]}

----------------------------------------------------------------------------
(* FlexTlsf and its source *)

\* The calls of `op` the source got
SourceCalls(op) ==
    {i \in 1 .. Len(source.log) : source.log[i].op = op}

\* C20: every call FlexTlsf makes to source.realloc_inplace_grow passes as
\* [start, old_end] the start and the current end of an allocation the source
\* has at that time, and a min_new_end that is not below old_end
C20_GrowPassesAnAllocation ==
    \A i \in SourceCalls("realloc_inplace_grow") :
        /\ SourceRange(source.log[i].start, source.log[i].end)
               \in source.log[i].allocs
        /\ source.log[i].arg >= source.log[i].end

\* C19: when supports_dealloc is true, drop calls source.dealloc once for
\* every allocation the source has, each time with the allocation's start and
\* its current end, and with no other range: every range passed is an
\* allocation of the source at that time, and none is left afterwards
C19_DropDeallocatesEveryPool ==
    (last.op = "drop" /\ source.supports_dealloc) =>
        /\ \A i \in SourceCalls("dealloc") :
               SourceRange(source.log[i].start, source.log[i].end)
                   \in source.log[i].allocs
        /\ source.allocs = {}

\* The calls the source gets in this step
NewSourceCalls == (Len(source.log) + 1) .. Len(source'.log)

\* The source is asked in this step, within the contract of FlexSource, and
\* returns None every time
SourceReturnsNone ==
    /\ NewSourceCalls # {}
    /\ source'.allocs = source.allocs
    /\ \A i \in NewSourceCalls :
          \/ source'.log[i].op = "alloc"
          \/ /\ source'.log[i].op = "realloc_inplace_grow"
             /\ SourceRange(source'.log[i].start, source'.log[i].end)
                    \in source'.log[i].allocs

\* C18: when the core cannot satisfy a request and the source returns None
\* from realloc_inplace_grow and from alloc, FlexTlsf::allocate returns None
\* and leaves the free lists, the bitmaps, the memory (block headers and pool
\* footers) and growable_pool as they were
C18_FailedAllocateChangesNothing ==
    [][(last'.op = "allocate" /\ calls' = calls + 1 /\ SourceReturnsNone) =>
           /\ err' = "none"
           /\ last'.ret = None
           /\ mem' = mem
           /\ fl_bitmap' = fl_bitmap
           /\ sl_bitmap' = sl_bitmap
           /\ first_free' = first_free
           /\ growable_pool' = growable_pool]_vars

\* An allocate has failed after the source refused to grow the growable pool
\* and refused to allocate
C18_Witness ==
    /\ err = "none"
    /\ last.op = "allocate"
    /\ last.ret = None
    /\ growable_pool # NoPool
    /\ Len(source.log) >= 2
    /\ source.log[Len(source.log) - 1].op = "realloc_inplace_grow"
    /\ source.log[Len(source.log) - 1].allocs = source.allocs
    /\ source.log[Len(source.log)].op = "alloc"
    /\ source.log[Len(source.log)].allocs = source.allocs

\* The bytes the source has handed out, by alloc or by a successful
\* realloc_inplace_grow
SourceMemory == UNION {r.start .. (r.end - 1) : r \in source.allocs}

\* C17: in a run of FlexTlsf allocate, deallocate and reallocate calls, the
\* range of every successful allocate or reallocate lies inside the memory
\* obtained from the source and shares no byte with another live allocation
C17_FlexAllocationIsExclusive ==
    (Returned /\ last.op \in {"allocate", "reallocate"}) =>
        /\ Bytes(last.ret, last.size) \subseteq SourceMemory
        /\ \A o \in last.others :
               Bytes(o.ptr, o.size) \cap Bytes(last.ret, last.size) = {}

\* C21: every call FlexTlsf makes to source.alloc passes a min_size that is
\* not zero and is a multiple of GRANULARITY
C21_AllocSizeIsGranular ==
    \A i \in SourceCalls("alloc") :
        /\ source.log[i].arg # 0
        /\ source.log[i].arg % GRANULARITY = 0

\* A source that is not well aligned has been asked by alloc for the pool of
\* a layout plus one granule
C21_Witness ==
    /\ source.min_align < GRANULARITY
    /\ \E i \in SourceCalls("alloc") :
          source.log[i].arg = pool_size_to_contain_allocation(12, GRANULARITY)
                                  + GRANULARITY

\* The source is asked in this step, within the contract of FlexSource, and
\* supplies memory: alloc returns a region or realloc_inplace_grow a new end
SourceSupplies ==
    /\ NewSourceCalls # {}
    /\ source'.allocs # source.allocs
    /\ \A i \in NewSourceCalls :
          \/ source'.log[i].op = "alloc"
          \/ /\ source'.log[i].op = "realloc_inplace_grow"
             /\ SourceRange(source'.log[i].start, source'.log[i].end)
                    \in source'.log[i].allocs

\* C22: when the core cannot satisfy allocate(layout) and the source then
\* supplies memory, the retried allocation succeeds and FlexTlsf::allocate
\* returns a pointer, whatever the min_align of the source
C22_SuppliedAllocateSucceeds ==
    [][(last'.op = "allocate" /\ calls' = calls + 1 /\ SourceSupplies) =>
           (err' = "none" /\ last'.ret # None)]_vars

\* The last call was an allocation request within 64 bytes of usize::MAX
HugeRequest(l) == l.op = "allocate" /\ l.size > USIZE_MAX - 64

\* C23: a request for a size within 64 bytes of the largest usize fails,
\* every time it is made, and the source's allocations stay as they were:
\* no memory is obtained for it.
C23_HugeRequestFails ==
    [][(calls' = calls + 1 /\ HugeRequest(last')) =>
           /\ err' = "none"
           /\ last'.ret = None
           /\ allocs' = allocs
           /\ source'.allocs = source.allocs]_vars

\* The request of usize::MAX - 56 bytes, which no addition overflows on,
\* was repeated on a FlexTlsf that has a pool and failed again
C23_Witness ==
    /\ HugeRequest(last)
    /\ last.size = USIZE_MAX - 56
    /\ last.ret = None
    /\ calls = MaxCallsHuge
    /\ growable_pool # NoPool
    /\ allocs # {}

\* The allocations the source had when its call i returned
AllocsAfter(i) ==
    IF i < Len(source'.log) THEN source'.log[i + 1].allocs ELSE source'.allocs

\* C30: FlexTlsf::allocate calls the source only when the core has no block
\* for the request; with a growable pool its first call is
\* realloc_inplace_grow; it calls alloc only first, without a growable pool,
\* or right after a realloc_inplace_grow that gave nothing; and at most one
\* of its calls gives memory.
C30_SourceCallsInOrder ==
    [][(last'.op = "allocate" /\ calls' = calls + 1 /\ NewSourceCalls # {}) =>
           LET first == Len(source.log) + 1
           IN /\ allocate(State, last'.size, last'.align).ret = None
              /\ growable_pool # NoPool =>
                     source'.log[first].op = "realloc_inplace_grow"
              /\ \A i \in NewSourceCalls :
                     \/ /\ source'.log[i].op = "realloc_inplace_grow"
                        /\ i = first
                        /\ growable_pool # NoPool
                     \/ /\ source'.log[i].op = "alloc"
                        /\ i = first
                        /\ growable_pool = NoPool
                     \/ /\ source'.log[i].op = "alloc"
                        /\ i = first + 1
                        /\ source'.log[first].op = "realloc_inplace_grow"
                        /\ AllocsAfter(first) = source'.log[first].allocs
              /\ Cardinality({i \in NewSourceCalls :
                                 AllocsAfter(i) # source'.log[i].allocs}) <= 1]_vars

\* The second allocate asked the source to grow its pool, got nothing, and
\* was given a new pool by alloc
C30_Witness ==
    /\ last.op = "allocate"
    /\ last.ret # None
    /\ calls = 2
    /\ Len(source.log) = 3
    /\ source.log[2].op = "realloc_inplace_grow"
    /\ source.log[3].op = "alloc"
    /\ source.log[3].allocs = source.log[2].allocs
    /\ source.allocs # source.log[3].allocs

\* What the core's reallocate gives in a step of FlexTlsf::reallocate
CoreReallocate == reallocate(State, last'.ptr, last'.size, last'.align)

\* C38: during one FlexTlsf::reallocate call the old block is deallocated at
\* most once and the old contents are read for copying only while the old
\* block is allocated: when the core's reallocate has freed the old block and
\* returned None, the wrapper does not go on to copy from it and deallocate
\* it, so the call returns None.
C38_WrapperFreesOnce ==
    [][(calls' = calls + 1 /\ last'.op = "reallocate"
            /\ CoreReallocate.path = "moved" /\ CoreReallocate.ret = None)
        => (err' = "none" /\ last'.ret = None)]_vars

\* The ends of the allocations whose pool footers FlexTlsf keeps: that of the
\* growable pool, and those the prev_alloc_end fields lead to from there
RECURSIVE FooterChain(_, _)
FooterChain(alloc_end, n) ==
    IF alloc_end = None \/ n = 0 THEN {}
    ELSE {alloc_end} \cup
             FooterChain(Word(get_for_alloc_end(alloc_end, source.min_align)
                                  + OFF_PREV_ALLOC_END),
                         n - 1)

KeptFooters ==
    IF growable_pool = NoPool THEN {}
    ELSE FooterChain(growable_pool.alloc_end, Len(source.log))

\* The bytes of the pool footer of the allocation that ends at alloc_end
FooterBytes(alloc_end) ==
    Bytes(get_for_alloc_end(alloc_end, source.min_align), PoolFtr_SIZE)

\* The blocks of the pool made on a source allocation, the sentinel block
\* included, found as next_phys_block finds them
FlexPoolBlocks(r) ==
    LET c == [start |-> insert_start(r.start),
              size |-> r.end - insert_start(r.start)]
        walk == PhysWalk(c.start, c, c.size \div USIZE_LEN)
    IN {walk[i] : i \in DOMAIN walk}

\* The bytes of a block that the core reads and writes: the two-word header,
\* and the two free-list links when the block is free
CoreBytes(b) ==
    Bytes(b, IF IsFree(b) THEN GRANULARITY ELSE UsedBlockHdr_SIZE)

\* C39: when supports_dealloc is true, no pool footer that FlexTlsf keeps
\* shares a byte with a payload handed to a caller, nor with a block header
\* or a free-list link of a pool.
C39_FooterIsApart ==
    (err = "none" /\ source.supports_dealloc /\ last.op # "drop") =>
        \A e \in KeptFooters :
            /\ \A a \in allocs : FooterBytes(e) \cap Bytes(a.ptr, a.size) = {}
            /\ \A r \in source.allocs :
                   \A b \in FlexPoolBlocks(r) :
                       FooterBytes(e) \cap CoreBytes(b) = {}

\* C40: after every FlexTlsf operation growable_pool, when set, records the
\* start and the current end of the most recently acquired source
\* allocation, and the current end of the pool registered in the core for it,
\* where the sentinel block of that pool ends.
C40_GrowablePoolIsCurrent ==
    (err = "none" /\ last.op # "drop" /\ growable_pool # NoPool) =>
        /\ SourceRange(growable_pool.alloc_start, growable_pool.alloc_end)
               \in source.allocs
        /\ growable_pool.alloc_end = source.brk
        /\ growable_pool.pool_end =
               insert_start(growable_pool.alloc_start)
                   + AlignDown(source.brk
                                   - insert_start(growable_pool.alloc_start),
                               GRANULARITY)
        /\ HasFlag(Word(growable_pool.pool_end - GRANULARITY + OFF_SIZE),
                   SIZE_LAST_IN_POOL)

----------------------------------------------------------------------------
(* The free block list mapper *)

\* C24: where map_ceil_and_unmap(size) is defined, its result u is the least
\* size of the list map_ceil(size) names: map_floor(u) and map_ceil(u) are
\* both that list.
C24_UnmapRoundTrip ==
    (mapped.op = "map_ceil_and_unmap" /\ mapped.ret # None) =>
        /\ MapParams_map_floor(mapped.self, mapped.ret) # NoList
        /\ MapParams_map_floor(mapped.self, mapped.ret)
               = MapParams_map_ceil(mapped.self, mapped.ret)
        /\ MapParams_map_ceil(mapped.self, mapped.ret)
               = MapParams_map_ceil(mapped.self, mapped.size)

\* map_ceil_and_unmap rounded a size up to the first size of the next
\* first-level row
C24_Witness ==
    /\ mapped.op = "map_ceil_and_unmap"
    /\ mapped.ret # None
    /\ mapped.ret > mapped.size
    /\ MapParams_map_floor(mapped.self, mapped.ret)[1]
           = MapParams_map_floor(mapped.self, mapped.size)[1] + 1

\* C25: map_ceil_and_unmap(size), where defined, is a machine word that is at
\* least size (a sum that wrapped would be less), and it is undefined
\* wherever map_ceil(size) is.
C25_UnmapIsAtLeastSize ==
    mapped.op = "map_ceil_and_unmap" =>
        /\ mapped.ret # None =>
               (mapped.ret >= mapped.size /\ ~Overflows(mapped.ret))
        /\ MapParams_map_ceil(mapped.self, mapped.size) = NoList =>
               mapped.ret = None

\* A size in the upper half of the word was rounded up
C25_Witness ==
    /\ mapped.op = "map_ceil_and_unmap"
    /\ mapped.size > USIZE_MAX \div 2
    /\ mapped.ret # None
    /\ mapped.ret > mapped.size

\* The list map_floor names for the size of the last call
FloorOfMapped == MapParams_map_floor(mapped.self, mapped.size)

\* C26, as stated: where both are defined, map_floor(size) = (fl1, sl1) and
\* map_ceil(size) = (fl2, sl2) have fl1 <= fl2 and sl1 <= sl2.
C26_FloorBelowCeilComponentwise ==
    (mapped.op = "map_ceil" /\ mapped.ret # NoList /\ FloorOfMapped # NoList) =>
        /\ FloorOfMapped[1] <= mapped.ret[1]
        /\ FloorOfMapped[2] <= mapped.ret[2]

\* C26, amended: where both are defined, map_floor(size) comes no later than
\* map_ceil(size) in the order of the lists, first by fl and then by sl; the
\* Tlsf's own map_floor and map_ceil agree with those of its MapParams.
C26_FloorBelowCeilInListOrder ==
    /\ (mapped.op = "map_ceil" /\ mapped.ret # NoList /\ FloorOfMapped # NoList) =>
           \/ FloorOfMapped[1] < mapped.ret[1]
           \/ /\ FloorOfMapped[1] = mapped.ret[1]
              /\ FloorOfMapped[2] <= mapped.ret[2]
    /\ (mapped.op = "map_ceil" /\ mapped.self = NoMapped.self) =>
           (map_ceil(mapped.size) = mapped.ret /\ map_floor(mapped.size) = FloorOfMapped)

\* map_ceil passed the last list of a first-level row and named the first
\* list of the next row: sl fell from SLLEN - 1 to 0
C26_Witness ==
    /\ mapped.op = "map_ceil"
    /\ mapped.ret # NoList
    /\ FloorOfMapped # NoList
    /\ mapped.ret[1] = FloorOfMapped[1] + 1
    /\ mapped.ret[2] = 0
    /\ FloorOfMapped[2] > 0

----------------------------------------------------------------------------
(* GlobalTlsf and its mutex *)

\* The threads that are between the start and the end of an operation on the
\* inner FlexTlsf
InInner == {t \in Threads : global.pc[t].at = "inner"}

\* C28: at most one thread at a time is in an operation on the inner
\* FlexTlsf; a thread holds the mutex from lock_inner until its guard is
\* dropped, and does not hold it outside a call.
C28_OneThreadInInner ==
    /\ Cardinality(InInner) <= 1
    /\ \A t \in Threads :
          /\ global.pc[t].at \in {"guarded", "inner", "return"} => global.mutex = t
          /\ global.pc[t].at \in {"idle", "lock_inner"} => global.mutex # t

\* One thread is in the deallocation of a realloc that allocated, and every
\* other thread waits in lock_inner
C28_Witness ==
    /\ ~global.enable_reallocation
    /\ \E t \in Threads :
          /\ InInner = {t}
          /\ global.pc[t].op = "realloc_deallocate"
          /\ \A u \in Threads \ {t} : global.pc[u].at = "lock_inner"

----------------------------------------------------------------------------
(* The used blocks and the pools of the Tlsf *)

\* The block that header recovery gives for a live allocation
HdrOf(a) == used_block_hdr_for_allocation(State, a.ptr, a.align)

\* C31: for every live allocation made with alignment a, header recovery
\* from (ptr, a) gives the start of the used block that contains ptr:
\* ptr - GRANULARITY/2 when a < GRANULARITY, otherwise the word stored right
\* before ptr, which lies in that block after its two-word header; the block
\* is a used block of a pool and holds the whole payload.
C31_HeaderRecoveryFindsBlock ==
    err = "none" =>
        \A a \in allocs :
            /\ HdrOf(a) \in AllBlocks
            /\ ~IsFree(HdrOf(a))
            /\ HdrOf(a) + UsedBlockHdr_SIZE <= a.ptr
            /\ a.ptr + a.size <= HdrOf(a) + SizeField(HdrOf(a))
            /\ a.align >= GRANULARITY
                   => HdrOf(a) + UsedBlockHdr_SIZE <= a.ptr - USIZE_LEN

\* C32: after every call, in each pool exactly one block has LAST_IN_POOL
\* set and it is the physically last block of the pool: following
\* next_phys_block from the first block passes blocks of the pool only and
\* ends, at the flagged block, where the pool ends.
C32_OneLastBlockPerPool ==
    err = "none" =>
        \A c \in Chunks :
            LET blocks == PhysBlocks(c)
            IN /\ blocks # <<>>
               /\ HasFlag(Word(blocks[Len(blocks)]), SIZE_LAST_IN_POOL)
               /\ blocks[Len(blocks)] + SizeField(blocks[Len(blocks)])
                      = c.start + c.size
               /\ \A i \in 1 .. (Len(blocks) - 1) :
                      blocks[i] + SizeField(blocks[i]) = blocks[i + 1]

----------------------------------------------------------------------------
(* The search of allocate *)

\* The free lists at or after idx in (fl, sl) order that the bitmaps tell to
\* be non-empty
ListsFrom(idx) ==
    {l \in Lists : /\ l[1] \in fl_bitmap /\ l[2] \in sl_bitmap[l[1]]
                   /\ \/ l[1] > idx[1]
                      \/ l[1] = idx[1] /\ l[2] >= idx[2]}

\* The first of a non-empty set of lists in (fl, sl) order
FirstList(S) ==
    CHOOSE l \in S : \A m \in S : l[1] < m[1] \/ (l[1] = m[1] /\ l[2] <= m[2])

\* The block of the allocation the step returns, as header recovery finds it
TakenBlock ==
    IF last'.align >= GRANULARITY THEN mem'[last'.ret - USIZE_LEN]
    ELSE last'.ret - GRANULARITY \div 2

\* C33: allocate takes the head of the first non-empty free list at or after
\* map_ceil(search_size) in (fl, sl) order, the block it takes is free and
\* at least search_size bytes long, and allocate fails for lack of memory
\* exactly when there is no such non-empty list.  IsFree and the size are
\* those of the block before the call.
C33_AllocateTakesFirstFit ==
    [][(calls' = calls + 1 /\ last'.op = "allocate" /\ err' = "none"
            /\ SearchSize(last'.size, last'.align) # -1)
        => LET search_size == SearchSize(last'.size, last'.align)
               S == IF map_ceil(search_size) = NoList THEN {}
                    ELSE ListsFrom(map_ceil(search_size))
           IN /\ (last'.ret = None) <=> (S = {})
              /\ S # {} =>
                    /\ TakenBlock = first_free[FirstList(S)[1]][FirstList(S)[2]]
                    /\ IsFree(TakenBlock)
                    /\ SIZE_SIZE_MASK(Word(TakenBlock)) >= search_size]_vars

----------------------------------------------------------------------------
(* Reallocation in place *)

\* The used block of the allocation the step reallocates, before the call
OldBlock ==
    used_block_hdr_for_allocation(State, last'.ptr, last'.align)

\* The block size the new layout needs at the old pointer: the overhead and
\* the size, rounded up to GRANULARITY
NewBlockSize ==
    AlignDown((last'.ptr - OldBlock) + last'.size + (GRANULARITY - 1),
              GRANULARITY)

\* The word at address a after the step
WordAfter(a) == IF a \in Addr THEN mem'[a] ELSE 0

\* The physically next block of the old block before the call is free
NextIsFree ==
    /\ next_phys_block(State, OldBlock) # None
    /\ IsFree(next_phys_block(State, OldBlock))

\* C34: reallocate to a layout whose rounded block size is smaller than the
\* current block size succeeds in place: it returns the same pointer, the
\* used block gets the new size, and the tail of old_size - new_size bytes
\* becomes a free block, merged with the following physical block when that
\* block is free.
C34_ShrinkIsInPlace ==
    [][(calls' = calls + 1 /\ last'.op = "reallocate"
            /\ NewBlockSize < SizeField(OldBlock))
        => LET tail == OldBlock + NewBlockSize
               tail_size ==
                   (SizeField(OldBlock) - NewBlockSize)
                       + (IF NextIsFree
                          THEN SizeField(next_phys_block(State, OldBlock))
                          ELSE 0)
           IN /\ err' = "none"
              /\ last'.ret = last'.ptr
              /\ SIZE_SIZE_MASK(WordAfter(OldBlock)) = NewBlockSize
              /\ HasFlag(WordAfter(OldBlock), SIZE_USED)
              /\ ~HasFlag(WordAfter(tail), SIZE_USED)
              /\ SIZE_SIZE_MASK(WordAfter(tail)) = tail_size]_vars

\* C35: a reallocate that grows a block returns the same pointer whenever
\* the next physical block is free and at least as large as the growth; the
\* unused remainder of that block, if any, is one free block at the head of
\* the list for its new size and keeps LAST_IN_POOL if the absorbed block
\* had it.
C35_GrowIsInPlace ==
    [][(calls' = calls + 1 /\ last'.op = "reallocate"
            /\ NewBlockSize > SizeField(OldBlock)
            /\ NextIsFree
            /\ SizeField(next_phys_block(State, OldBlock))
                   >= NewBlockSize - SizeField(OldBlock))
        => LET next == next_phys_block(State, OldBlock)
               rest == OldBlock + NewBlockSize
               rest_size == SizeField(next) - (NewBlockSize - SizeField(OldBlock))
               last_in_pool == HasFlag(Word(next), SIZE_LAST_IN_POOL)
           IN /\ err' = "none"
              /\ last'.ret = last'.ptr
              /\ SIZE_SIZE_MASK(WordAfter(OldBlock)) = NewBlockSize
              /\ rest_size = 0 =>
                     HasFlag(WordAfter(OldBlock), SIZE_LAST_IN_POOL) = last_in_pool
              /\ rest_size > 0 =>
                     /\ WordAfter(rest) =
                            rest_size + (IF last_in_pool
                                         THEN SIZE_LAST_IN_POOL ELSE 0)
                     /\ first_free'[map_floor(rest_size)[1]][map_floor(rest_size)[2]]
                            = rest]_vars

----------------------------------------------------------------------------
(* The free lists as chains *)

\* The lists the bitmaps tell to be non-empty
ListsInUse == {l \in Lists : l[1] \in fl_bitmap /\ l[2] \in sl_bitmap[l[1]]}

\* C36: after every call each free list in use is a finite, null-terminated
\* doubly linked chain: the head has prev_free = None, every block b that
\* follows a block a in the list has b.prev_free = a, and the list holds
\* free blocks only and no block twice.
C36_FreeListsAreChains ==
    err = "none" =>
        \A l \in ListsInUse :
            LET chain == FreeList(l[1], l[2])
            IN /\ chain # <<>>
               /\ Word(chain[1] + OFF_PREV_FREE) = None
               /\ Word(chain[Len(chain)] + OFF_NEXT_FREE) = None
               /\ \A i \in 1 .. (Len(chain) - 1) :
                      Word(chain[i + 1] + OFF_PREV_FREE) = chain[i]
               /\ \A i \in DOMAIN chain : IsFree(chain[i])
               /\ \A i, j \in DOMAIN chain : chain[i] = chain[j] => i = j

----------------------------------------------------------------------------
(* The copy of a relocating reallocate *)

\* The bytes the initer of reallocate writes at the new pointer: the saved
\* GRANULARITY / 2 bytes of the head and then the rest, whose length it takes
\* from the size the old block header holds after deallocate
CopiedBytes ==
    LET d == deallocate_block(State, last'.ptr, last'.align)
        n == SIZE_SIZE_MASK(Rd(d.s, OldBlock + OFF_SIZE)) - UsedBlockHdr_SIZE
    IN Bytes(last'.ret, IF n < 2 * USIZE_LEN THEN 2 * USIZE_LEN ELSE n)

\* The payload of the block the step returned: from the pointer to the end of
\* its block
NewPayload ==
    Bytes(last'.ret,
          TakenBlock + SIZE_SIZE_MASK(WordAfter(TakenBlock)) - last'.ret)

\* C37: in the relocating path of reallocate every byte written while the
\* old contents are copied lies inside the payload of the newly allocated
\* block.
C37_CopyStaysInNewPayload ==
    [][(calls' = calls + 1 /\ last'.op = "reallocate"
            /\ last'.path = "moved" /\ last'.ret # None)
        => CopiedBytes \subseteq NewPayload]_vars

====
